---------------------------- MODULE Spec2Model ----------------------------
(***************************************************************************)
(* dr-indigo: the triage workflow (server/workflow.py), the older          *)
(* workflows of server/main.py and server/api.py, the stream adapter       *)
(* (server/workflow_agent_adapter.py) and the conversation handling of     *)
(* server/api.py.                                                          *)
(*                                                                         *)
(* The specifications of the module:                                       *)
(*   SpecGate  the edge predicates applied to one message at a time        *)
(*   Spec      one run of the build_workflow graph behind run_stream       *)
(*   SpecApi   interleaved getUserAction / ask_medical_question requests   *)
(*   SpecMain  one run of the main.py workflow, called by main()           *)
(*   SpecCallers  either program: the adapter's run or main.py's run       *)
(*   SpecRouter  _final_response_router applied to any list of responses   *)
(*   SpecAdapter  WorkflowAgentAdapter.run / run_stream on any argument,   *)
(*                over any result of the workflow                         *)
(*   SpecStore  CosmosDBChatMessageStore: add_messages and list_messages   *)
(* The variables a specification does not use keep their initial value.    *)
(***************************************************************************)
EXTENDS Naturals, Sequences, FiniteSets, TLC

VARIABLES
    \* ---- SpecGate
    message,      \* the message an edge predicate is evaluated on
    verdict,      \* what every predicate returned for it
    \* ---- Spec: one run of the build_workflow graph
    request,      \* the inbound AgentExecutorRequest (its question)
    triageAgent,  \* the AgentRunResponse the triage agent gives when it returns
    careAgent,    \* the AgentRunResponse the care navigator gives when it returns
    node,         \* executor id -> "idle" | "running" | "settled" | "raised"
    inbox,        \* executor id -> the messages delivered to it and not yet handled
    received,     \* executor id -> the messages it was invoked with, in order
    joinBuffer,   \* fan-in: the responses recorded so far, in arrival order
    outputs,      \* the run's output events (yield_output), in order
    runStatus,    \* "idle" | "running" | "completed" | "failed"
    deadlinePassed, \* the caller's run-level deadline has elapsed
    adapterPc,    \* WorkflowAgentAdapter.run_stream: "start" | "awaiting" | "done" | "raised"
    updates,      \* the AgentRunResponseUpdates run_stream has emitted
    \* ---- SpecApi: server/api.py
    memory_helper,        \* the module global: TRUE when MemoryHelper() was built
    current_thread_id,    \* the module global
    conversation_threads, \* the module global dict thread id -> messages
    cosmos,               \* the documents of the CosmosDB container
    clock,                \* datetime.utcnow(), as a counter
    asks,                 \* conversation -> its ask_medical_question call in flight
    nRequests,            \* requests started so far
    \* ---- SpecMain: server/main.py
    authAgent,    \* the AgentRunResponse the authentication agent gives
    mainTriage,   \* the text of the AgentRunResponse the triage agent gives
    jointSurgery, \* the joint surgery AgentExecutor: its output_response and reply
    mainInbox,    \* executor id -> the messages delivered to it and not yet handled
    mainReceived, \* executor id -> the messages it was invoked with, in order
    mainOutputs,  \* the run's output events, in order
    shared_state, \* the keys handlers have set with ctx.set_shared_state
    mainStatus,   \* "none" | "idle" | "running" | "completed" | "failed"
    mainPc,       \* main(): "none" | "start" | "awaiting" | "done" | "raised"
    mainFinal,    \* what main() printed as "Final output", if anything
    \* ---- SpecRouter: _final_response_router on any list of responses
    routerInput,  \* the list of responses the handler is invoked with
    routed,       \* whether it has handled the list, and what it yielded
    \* ---- SpecAdapter: WorkflowAgentAdapter.run / run_stream, any argument
    adapter,      \* the call in hand: its arguments, locals and what it gave
    \* ---- SpecStore: tools/cosmos_message_store.py
    max_messages, \* thread id -> the max_messages of the thread's store, if any
    container,    \* the documents of the chat_messages container
    storeClock,   \* the time of the CosmosDB service, in whole seconds
    added,        \* thread id -> how many messages were added to the thread
    listed,       \* what the last list_messages call returned
    \* ---- SpecMemory: MemoryHelper on any sequence of calls (cosmos, clock too)
    lastWritten,  \* thread id -> the memory_data of its last write that returned True
    memoryRead    \* what the last read_memory call returned

gateVars == <<message, verdict>>
runVars == <<request, triageAgent, careAgent, node, inbox, received, joinBuffer,
             outputs, runStatus, deadlinePassed, adapterPc, updates>>
apiVars == <<memory_helper, current_thread_id, conversation_threads, cosmos,
             clock, asks, nRequests>>
mainVars == <<authAgent, mainTriage, jointSurgery, mainInbox, mainReceived, mainOutputs,
              shared_state, mainStatus, mainPc, mainFinal>>
routerVars == <<routerInput, routed>>
storeVars == <<max_messages, container, storeClock, added, listed>>
memVars == <<lastWritten, memoryRead>>
unitVars == <<routerVars, adapter, storeVars, memVars>>
vars == <<gateVars, runVars, apiVars, mainVars, unitVars>>

-----------------------------------------------------------------------------
(***************************************************************************)
(* The text of a triage response.  A text is either free text (anything    *)
(* that does not parse as a JSON object) or a JSON object; of an object    *)
(* only the three fields the schemas name matter.  A boolean field is      *)
(* absent, holds a value pydantic reads as true or as false, or holds a    *)
(* value it rejects; the reason is absent, a string, or not a string.      *)
(***************************************************************************)
BoolFields == {"absent", "true", "false", "badtype"}
ReasonFields == {"absent", "str", "badtype"}
FreeText == [obj |-> FALSE, em |-> "absent", adv |-> "absent", reason |-> "absent"]
JsonTexts == [obj : {TRUE}, em : BoolFields, adv : BoolFields, reason : ReasonFields]
TriageTexts == {FreeText} \cup JsonTexts

\* The outcome of a decode: ok = FALSE stands for the exception raised (None).
NoResult == [ok |-> FALSE, is_medical_emergency |-> FALSE, is_medical_advice |-> FALSE]
Result(em, adv) == [ok |-> TRUE, is_medical_emergency |-> em, is_medical_advice |-> adv]

\* agents/medical_triage_agent.py: MedicalTriageResult(is_medical_emergency, reason).
\* Extra fields (is_medical_advice) are ignored.
TriageResult_model_validate_json(text) ==
    IF text.obj /\ text.em \in {"true", "false"} /\ text.reason = "str"
    THEN Result(text.em = "true", FALSE)
    ELSE NoResult

\* medical_triage_agent.py: MedicalTriageResult(is_medical_emergency,
\* is_medical_advice, reason), the schema main.py and api.py import.
AdviceResult_model_validate_json(text) ==
    IF /\ text.obj
       /\ text.em \in {"true", "false"}
       /\ text.adv \in {"true", "false"}
       /\ text.reason = "str"
    THEN Result(text.em = "true", text.adv = "true")
    ELSE NoResult

(***************************************************************************)
(* Messages.  isResp tells an AgentExecutorResponse from anything else (an *)
(* AgentExecutorRequest, a list, a string).  value is the structured value *)
(* of the agent run response (ok = FALSE: None).                           *)
(***************************************************************************)
TRIAGE_EXECUTOR_ID == "medical_triage_agent_executor"
CARE_NAV_EXECUTOR_ID == "care_navigator_agent_executor"

GateMessages ==
    [isResp : BOOLEAN, executor_id : {TRIAGE_EXECUTOR_ID}, text : TriageTexts,
     value : {NoResult}]

(***************************************************************************)
(* workflow.py _condition_medical_emergency, with the trace of whether     *)
(* model_validate_json was called.                                         *)
(***************************************************************************)
MutConditionDecodeFirst(m) ==
    LET detection == TriageResult_model_validate_json(m.text)
    IN  IF ~detection.ok THEN [result |-> FALSE, decoded |-> TRUE]
        ELSE IF ~m.isResp THEN [result |-> TRUE, decoded |-> TRUE]
        ELSE [result |-> detection.is_medical_emergency, decoded |-> TRUE]

condition_medical_emergency_trace(m) ==
    IF ~m.isResp THEN [result |-> TRUE, decoded |-> FALSE]
    ELSE LET detection == TriageResult_model_validate_json(m.text)
         IN  IF detection.ok
             THEN [result |-> detection.is_medical_emergency, decoded |-> TRUE]
             ELSE [result |-> FALSE, decoded |-> TRUE]

MutWfConditionFailOpen(m) ==
    IF ~m.isResp THEN TRUE
    ELSE LET detection == TriageResult_model_validate_json(m.text)
         IN  IF detection.ok THEN detection.is_medical_emergency ELSE TRUE

_condition_medical_emergency(m) == condition_medical_emergency_trace(m).result

\* main.py condition_medical_emergency / condition_medical_guidance
MutMainEmergencyFailOpen(m) ==
    IF ~m.isResp THEN TRUE
    ELSE LET detection == AdviceResult_model_validate_json(m.text)
         IN  IF detection.ok THEN detection.is_medical_emergency ELSE TRUE

condition_medical_emergency(m) ==
    IF ~m.isResp THEN TRUE
    ELSE LET detection == AdviceResult_model_validate_json(m.text)
         IN  IF detection.ok THEN detection.is_medical_emergency ELSE FALSE

condition_medical_guidance(m) ==
    IF ~m.isResp THEN TRUE
    ELSE LET detection == AdviceResult_model_validate_json(m.text)
         IN  IF detection.ok THEN detection.is_medical_advice ELSE FALSE

\* api.py condition_medical_emergency / condition_medical_guidance
api_condition_medical_emergency(m) ==
    IF ~m.isResp THEN TRUE
    ELSE LET detection == AdviceResult_model_validate_json(m.text)
         IN  IF detection.ok THEN detection.is_medical_emergency ELSE FALSE

api_condition_medical_guidance(m) ==
    IF ~m.isResp THEN TRUE
    ELSE LET detection == AdviceResult_model_validate_json(m.text)
         IN  IF detection.ok THEN detection.is_medical_advice ELSE FALSE

\* The conditions of the three edges out of triage, main.py and api.py.
main_edge_emergency(m) == condition_medical_emergency(m)
MutMainEdgeGuidanceAlone(m) == condition_medical_guidance(m)

main_edge_guidance(m) ==
    (~condition_medical_emergency(m)) /\ condition_medical_guidance(m)
main_edge_joint_surgery(m) ==
    (~condition_medical_guidance(m)) /\ (~condition_medical_emergency(m))

api_edge_emergency(m) == api_condition_medical_emergency(m)
api_edge_guidance(m) ==
    (~api_condition_medical_emergency(m)) /\ api_condition_medical_guidance(m)
api_edge_joint_surgery(m) ==
    (~api_condition_medical_guidance(m)) /\ (~api_condition_medical_emergency(m))

-----------------------------------------------------------------------------
(***************************************************************************)
(* Text helpers.  Texts are strings; str.strip is tabulated on the texts   *)
(* the model uses (the only ones with surrounding white space).            *)
(***************************************************************************)
Strip(s) ==
    CASE s = "  " -> ""
      [] s = " reply " -> "reply"
      [] s = " m1 " -> "m1"
      [] s = " new " -> "new"
      [] OTHER -> s

RECURSIVE FilterNonEmpty(_)
FilterNonEmpty(parts) ==
    IF parts = <<>> THEN <<>>
    ELSE IF Head(parts) = "" THEN FilterNonEmpty(Tail(parts))
         ELSE <<Head(parts)>> \o FilterNonEmpty(Tail(parts))

RECURSIVE JoinBlankLine(_)
JoinBlankLine(parts) ==
    IF parts = <<>> THEN ""
    ELSE IF Len(parts) = 1 THEN Head(parts)
         ELSE Head(parts) \o "\n\n" \o JoinBlankLine(Tail(parts))

\* Chat messages: a role and contents; a content is a TextContent or not.
TextContent(s) == [isText |-> TRUE, text |-> s]
OtherContent == [isText |-> FALSE, text |-> ""]
ChatMessage(role, contents) == [role |-> role, contents |-> contents]

\* workflow.py 129-131 / 141-143: the stripped texts of a message's TextContents
RECURSIVE TextParts(_)
TextParts(contents) ==
    IF contents = <<>> THEN <<>>
    ELSE LET c == Head(contents)
         IN  (IF c.isText /\ c.text # "" THEN <<Strip(c.text)>> ELSE <<>>)
             \o TextParts(Tail(contents))

\* workflow.py 125-132: the assistant texts of the response's messages
RECURSIVE AssistantParts(_)
AssistantParts(messages) ==
    IF messages = <<>> THEN <<>>
    ELSE (IF Head(messages).role = "assistant"
          THEN TextParts(Head(messages).contents) ELSE <<>>)
         \o AssistantParts(Tail(messages))

MessagesFallback(messages) ==
    Strip(JoinBlankLine(FilterNonEmpty(AssistantParts(messages))))

\* workflow.py 137-147: the last assistant message of full_conversation with text
RECURSIVE MutConversationFallbackOldest(_)
MutConversationFallbackOldest(conversation) ==
    IF conversation = <<>> THEN ""
    ELSE LET m == Head(conversation)
             candidate == Strip(JoinBlankLine(FilterNonEmpty(TextParts(m.contents))))
         IN  IF m.role = "assistant" /\ candidate # "" THEN candidate
             ELSE MutConversationFallbackOldest(Tail(conversation))

RECURSIVE ConversationFallback(_)
ConversationFallback(conversation) ==
    IF conversation = <<>> THEN ""
    ELSE LET m == conversation[Len(conversation)]
             rest == SubSeq(conversation, 1, Len(conversation) - 1)
             candidate == Strip(JoinBlankLine(FilterNonEmpty(TextParts(m.contents))))
         IN  IF m.role # "assistant" THEN ConversationFallback(rest)
             ELSE IF candidate # "" THEN candidate
             ELSE ConversationFallback(rest)

\* workflow.py 114-147: the text final_response_router settles on
MutCareTextNoStrip(care) == care.text

CareNavigatorText(care) ==
    LET t1 == Strip(care.text)
        t2 == IF t1 # "" THEN t1 ELSE MessagesFallback(care.messages)
    IN  IF t2 # "" THEN t2 ELSE ConversationFallback(care.full_conversation)

\* workflow.py 114: care_response.agent_run_response
agent_run_response(response) ==
    [text |-> response.chars, value |-> response.value,
     messages |-> response.messages,
     full_conversation |-> response.full_conversation]

\* workflow.py 84-88: the last response of the list with the given executor id
RECURSIVE LastFrom(_, _)
LastFrom(responses, id) ==
    IF responses = <<>> THEN <<>>
    ELSE IF responses[Len(responses)].executor_id = id
         THEN <<responses[Len(responses)]>>
         ELSE LastFrom(SubSeq(responses, 1, Len(responses) - 1), id)

\* workflow.py 95-104: the structured value first, else the decoded text
RouterTriageResult(triage_response) ==
    IF triage_response.value.ok THEN triage_response.value
    ELSE TriageResult_model_validate_json(triage_response.text)

EMERGENCY_MESSAGE == "Yo, you should call 911 or go to the emergency room!"

\* workflow.py 74-153 _final_response_router: the values it yields
MutRouterNoEmergencyCheck(responses) ==
    LET triage == LastFrom(responses, TRIAGE_EXECUTOR_ID)
        care == LastFrom(responses, CARE_NAV_EXECUTOR_ID)
    IN  IF triage = <<>> \/ care = <<>> THEN <<>>
        ELSE IF CareNavigatorText(agent_run_response(care[1])) # ""
             THEN <<CareNavigatorText(agent_run_response(care[1]))>> ELSE <<>>

MutRouterCareAlone(responses) ==
    LET triage == LastFrom(responses, TRIAGE_EXECUTOR_ID)
        care == LastFrom(responses, CARE_NAV_EXECUTOR_ID)
    IN  IF care = <<>> THEN <<>>
        ELSE IF triage # <<>> /\ RouterTriageResult(triage[1]).ok
                /\ RouterTriageResult(triage[1]).is_medical_emergency
             THEN <<>>
             ELSE IF CareNavigatorText(agent_run_response(care[1])) # ""
                  THEN <<CareNavigatorText(agent_run_response(care[1]))>> ELSE <<>>

final_response_router(responses) ==
    LET triage == LastFrom(responses, TRIAGE_EXECUTOR_ID)
        care == LastFrom(responses, CARE_NAV_EXECUTOR_ID)
    IN  IF triage = <<>> \/ care = <<>> THEN <<>>
        ELSE LET triage_result == RouterTriageResult(triage[1])
                 response_text == CareNavigatorText(agent_run_response(care[1]))
             IN  IF triage_result.ok /\ triage_result.is_medical_emergency
                 THEN <<>>
                 ELSE IF response_text # "" THEN <<response_text>> ELSE <<>>

-----------------------------------------------------------------------------
(***************************************************************************)
(* SpecGate: every edge predicate applied to a message.                    *)
(***************************************************************************)
NoVerdict ==
    [evaluated |-> FALSE, wf_emergency |-> FALSE, wf_decoded |-> FALSE,
     main_emergency |-> FALSE, main_guidance |-> FALSE,
     api_emergency |-> FALSE, api_guidance |-> FALSE,
     main_edges |-> <<FALSE, FALSE, FALSE>>, api_edges |-> <<FALSE, FALSE, FALSE>>]

\* The runner evaluates the conditions of the edges on the message.
Evaluate ==
    /\ ~verdict.evaluated
    /\ verdict' =
         [evaluated |-> TRUE,
          wf_emergency |-> _condition_medical_emergency(message),
          wf_decoded |-> condition_medical_emergency_trace(message).decoded,
          main_emergency |-> condition_medical_emergency(message),
          main_guidance |-> condition_medical_guidance(message),
          api_emergency |-> api_condition_medical_emergency(message),
          api_guidance |-> api_condition_medical_guidance(message),
          main_edges |-> <<main_edge_emergency(message), main_edge_guidance(message),
                           main_edge_joint_surgery(message)>>,
          api_edges |-> <<api_edge_emergency(message), api_edge_guidance(message),
                          api_edge_joint_surgery(message)>>]
    /\ UNCHANGED <<message, runVars, apiVars, mainVars, unitVars>>

\* The next message arrives.
Probe ==
    /\ verdict.evaluated
    /\ \E m \in GateMessages : message' = m
    /\ verdict' = NoVerdict
    /\ UNCHANGED <<runVars, apiVars, mainVars, unitVars>>

-----------------------------------------------------------------------------
(***************************************************************************)
(* Spec: one run of the build_workflow graph, called by run_stream.        *)
(***************************************************************************)
ENTRY_ID == "entry_dispatcher"
REPLY_EMERGENCY_ID == "reply_emergency"
ROUTER_ID == "final_response_router"
Nodes == {ENTRY_ID, TRIAGE_EXECUTOR_ID, CARE_NAV_EXECUTOR_ID, REPLY_EMERGENCY_ID, ROUTER_ID}
AgentNodes == {TRIAGE_EXECUTOR_ID, CARE_NAV_EXECUTOR_ID}
\* workflow.py 227-230: the declared predecessors of the fan-in
FanInSources == {TRIAGE_EXECUTOR_ID, CARE_NAV_EXECUTOR_ID}

\* An edge of a workflow graph, with the name of its condition.
Edge(source, target, condition) ==
    [source |-> source, target |-> target, condition |-> condition]

\* workflow.py 215-232: the start executor, the edges of add_fan_out_edges and
\* add_edge, and the group of add_fan_in_edges
WorkflowStart == {ENTRY_ID}
MutWorkflowEdgesCareToRouter ==
    {Edge(ENTRY_ID, n, "always") : n \in AgentNodes}
    \cup {Edge(TRIAGE_EXECUTOR_ID, REPLY_EMERGENCY_ID, "emergency"),
          Edge(CARE_NAV_EXECUTOR_ID, ROUTER_ID, "always")}

WorkflowEdges ==
    {Edge(ENTRY_ID, n, "always") : n \in AgentNodes}
    \cup {Edge(TRIAGE_EXECUTOR_ID, REPLY_EMERGENCY_ID, "emergency")}

WorkflowFanIns == {[sources |-> FanInSources, target |-> ROUTER_ID]}

Requests == {"q1", "q2"}

\* What the triage agent may return: any text, with any structured value.
RunTriageTexts == {t \in TriageTexts : t.adv \in {"absent", "true"}}
TriageValues == {NoResult, Result(TRUE, FALSE), Result(FALSE, FALSE)}
TriageRunResponses ==
    [text : RunTriageTexts, value : TriageValues, messages : {<<>>},
     full_conversation : {<<>>}]

\* What the care navigator may return.
CareTexts == {"", "  ", "reply", " reply "}
CareMessageLists ==
    { <<>>,
      <<ChatMessage("user", <<TextContent("q1")>>),
        ChatMessage("assistant", <<TextContent(" m1 "), OtherContent, TextContent("m2")>>)>>,
      <<ChatMessage("assistant", <<TextContent("  "), OtherContent>>)>> }
CareConversations ==
    { <<>>,
      <<ChatMessage("assistant", <<TextContent("old")>>),
        ChatMessage("assistant", <<TextContent(" new ")>>),
        ChatMessage("user", <<TextContent("q2")>>),
        ChatMessage("assistant", <<TextContent("")>>)>> }
CareRunResponses ==
    [text : CareTexts, value : {NoResult}, messages : CareMessageLists,
     full_conversation : CareConversations]

\* The AgentExecutorResponse an AgentExecutor sends for its agent's response.
\* The text of the response is carried in two readings: text is what it
\* holds as JSON (a care navigator reply is not a JSON object), chars is
\* its characters (kept for the care navigator's reply, the only text whose
\* characters the workflow reads).
AgentExecutorResponse(id, r) ==
    [isResp |-> TRUE, executor_id |-> id,
     text |-> IF id = TRIAGE_EXECUTOR_ID THEN r.text ELSE FreeText,
     chars |-> IF id = TRIAGE_EXECUTOR_ID THEN "" ELSE r.text,
     value |-> r.value,
     messages |-> r.messages, full_conversation |-> r.full_conversation]

AgentResponseOf(n) ==
    IF n = TRIAGE_EXECUTOR_ID
    THEN AgentExecutorResponse(n, triageAgent)
    ELSE AgentExecutorResponse(n, careAgent)

RunIdle ==
    /\ node = [n \in Nodes |-> "idle"]
    /\ inbox = [n \in Nodes |-> <<>>]
    /\ received = [n \in Nodes |-> <<>>]
    /\ joinBuffer = <<>>
    /\ outputs = <<>>
    /\ runStatus = "idle"
    /\ deadlinePassed = FALSE
    /\ adapterPc = "start"
    /\ updates = <<>>

GateIdle ==
    /\ message = [isResp |-> FALSE, executor_id |-> TRIAGE_EXECUTOR_ID,
                  text |-> FreeText, value |-> NoResult]
    /\ verdict = NoVerdict

\* ctx.yield_output(data) of executor id: a WorkflowOutputEvent of the run
OutputEvent(id, data) == [source_executor_id |-> id, data |-> data]
YieldsOf(id, datas) == [i \in 1..Len(datas) |-> OutputEvent(id, datas[i])]
\* workflow_result.get_outputs(): the data of the output events, in order
get_outputs == [i \in 1..Len(outputs) |-> outputs[i].data]

\* workflow_agent_adapter.py 54: the request built from the chat messages
RequestMessage(q) == [isResp |-> FALSE, messages |-> q, should_respond |-> TRUE]

RESPONSE_ID == "response-id"
ReasoningUpdate ==
    [response_id |-> RESPONSE_ID, role |-> "assistant", kind |-> "reasoning",
     text |-> "Analyzing input..."]
TextUpdate(t) ==
    [response_id |-> RESPONSE_ID, role |-> "assistant", kind |-> "text", text |-> t]

\* workflow_agent_adapter.py 49-60: run_stream up to its first yield
RunStreamBegin ==
    /\ adapterPc = "start"
    /\ updates' = Append(updates, ReasoningUpdate)
    /\ adapterPc' = "reasoned"
    /\ UNCHANGED <<request, triageAgent, careAgent, node, inbox, received,
                   joinBuffer, outputs, runStatus, deadlinePassed>>
    /\ UNCHANGED <<unitVars, gateVars, apiVars, mainVars>>

\* workflow_agent_adapter.py 61: await self._workflow.run(request); the run is
\* seeded with the start executor (workflow.py 217).
RunWorkflow ==
    /\ adapterPc = "reasoned"
    /\ adapterPc' = "awaiting"
    /\ runStatus' = "running"
    /\ inbox' = [inbox EXCEPT ![ENTRY_ID] = <<RequestMessage(request)>>]
    /\ UNCHANGED <<request, triageAgent, careAgent, node, received, joinBuffer,
                   outputs, deadlinePassed, updates>>
    /\ UNCHANGED <<unitVars, gateVars, apiVars, mainVars>>

\* workflow.py 63: ctx.send_message(request)
MutEntryForwardNoRespond(req) == [req EXCEPT !.should_respond = FALSE]

EntryForward(req) == req

\* workflow.py 58-63 _entry_dispatcher, and the fan-out of 218-221
entry_dispatcher ==
    /\ runStatus = "running"
    /\ inbox[ENTRY_ID] # <<>>
    /\ LET req == Head(inbox[ENTRY_ID])
       IN  /\ received' = [received EXCEPT ![ENTRY_ID] = Append(@, req)]
           /\ inbox' = [n \in Nodes |->
                          IF n = ENTRY_ID THEN Tail(inbox[n])
                          ELSE IF n \in AgentNodes
                               THEN Append(inbox[n], EntryForward(req))
                               ELSE inbox[n]]
    /\ node' = [node EXCEPT ![ENTRY_ID] = "settled"]
    /\ UNCHANGED <<request, triageAgent, careAgent, joinBuffer, outputs, runStatus,
                   deadlinePassed, adapterPc, updates>>
    /\ UNCHANGED <<unitVars, gateVars, apiVars, mainVars>>

\* An AgentExecutor takes the request and calls its agent (the external call).
InvokeAgent(n) ==
    /\ runStatus = "running"
    /\ inbox[n] # <<>>
    /\ node[n] # "running"
    /\ received' = [received EXCEPT ![n] = Append(@, Head(inbox[n]))]
    /\ inbox' = [inbox EXCEPT ![n] = Tail(@)]
    /\ node' = [node EXCEPT ![n] = "running"]
    /\ UNCHANGED <<request, triageAgent, careAgent, joinBuffer, outputs, runStatus,
                   deadlinePassed, adapterPc, updates>>
    /\ UNCHANGED <<unitVars, gateVars, apiVars, mainVars>>

\* workflow.py 227-230 add_fan_in_edges: the join is ready once every declared
\* predecessor has a response recorded.
MutJoinReadyOnFirst(buffer) == buffer # <<>>

JoinReady(buffer) ==
    \A s \in FanInSources : \E i \in 1..Len(buffer) : buffer[i].executor_id = s

\* workflow.py 222-226: the edge triage -> reply_emergency and its condition
EmergencyEdge(n, resp) ==
    /\ Edge(n, REPLY_EMERGENCY_ID, "emergency") \in WorkflowEdges
    /\ _condition_medical_emergency(resp)

\* The agent returns; its executor sends the response along its outgoing edges
\* (workflow.py 222-230).
AgentReturns(n) ==
    /\ runStatus = "running"
    /\ node[n] = "running"
    /\ LET resp == AgentResponseOf(n)
           buffer == Append(joinBuffer, resp)
       IN  /\ inbox' = [inbox EXCEPT
                          ![REPLY_EMERGENCY_ID] =
                              IF EmergencyEdge(n, resp) THEN Append(@, resp) ELSE @,
                          ![ROUTER_ID] =
                              IF JoinReady(buffer) THEN Append(@, buffer) ELSE @]
           /\ joinBuffer' = IF JoinReady(buffer) THEN <<>> ELSE buffer
    /\ node' = [node EXCEPT ![n] = "settled"]
    /\ UNCHANGED <<request, triageAgent, careAgent, received, outputs, runStatus,
                   deadlinePassed, adapterPc, updates>>
    /\ UNCHANGED <<unitVars, gateVars, apiVars, mainVars>>

\* The agent call raises; nothing in workflow.py catches it, the run fails.
AgentRaises(n) ==
    /\ runStatus = "running"
    /\ node[n] = "running"
    /\ node' = [node EXCEPT ![n] = "raised"]
    /\ runStatus' = "failed"
    /\ UNCHANGED <<request, triageAgent, careAgent, inbox, received, joinBuffer,
                   outputs, deadlinePassed, adapterPc, updates>>
    /\ UNCHANGED <<unitVars, gateVars, apiVars, mainVars>>

\* workflow.py 66-71 _handle_emergency
reply_emergency ==
    /\ runStatus = "running"
    /\ inbox[REPLY_EMERGENCY_ID] # <<>>
    /\ received' = [received EXCEPT
                      ![REPLY_EMERGENCY_ID] = Append(@, Head(inbox[REPLY_EMERGENCY_ID]))]
    /\ inbox' = [inbox EXCEPT ![REPLY_EMERGENCY_ID] = Tail(@)]
    /\ outputs' = Append(outputs, OutputEvent(REPLY_EMERGENCY_ID, EMERGENCY_MESSAGE))
    /\ node' = [node EXCEPT ![REPLY_EMERGENCY_ID] = "settled"]
    /\ UNCHANGED <<request, triageAgent, careAgent, joinBuffer, runStatus,
                   deadlinePassed, adapterPc, updates>>
    /\ UNCHANGED <<unitVars, gateVars, apiVars, mainVars>>

\* workflow.py 74-153 _final_response_router
FinalResponseRouter ==
    /\ runStatus = "running"
    /\ inbox[ROUTER_ID] # <<>>
    /\ received' = [received EXCEPT ![ROUTER_ID] = Append(@, Head(inbox[ROUTER_ID]))]
    /\ inbox' = [inbox EXCEPT ![ROUTER_ID] = Tail(@)]
    /\ outputs' = outputs \o YieldsOf(ROUTER_ID, final_response_router(Head(inbox[ROUTER_ID])))
    /\ node' = [node EXCEPT ![ROUTER_ID] = "settled"]
    /\ UNCHANGED <<request, triageAgent, careAgent, joinBuffer, runStatus,
                   deadlinePassed, adapterPc, updates>>
    /\ UNCHANGED <<unitVars, gateVars, apiVars, mainVars>>

\* No message is left and no executor is running: workflow.run returns.
MutQuiescentAllSettled == \A n \in Nodes : node[n] = "settled"

MutQuiescentOnFirstYield ==
    \/ outputs # <<>>
    \/ \A n \in Nodes : inbox[n] = <<>> /\ node[n] # "running"

Quiescent ==
    \A n \in Nodes : inbox[n] = <<>> /\ node[n] # "running"

RunCompletes ==
    /\ runStatus = "running"
    /\ Quiescent
    /\ runStatus' = "completed"
    /\ UNCHANGED <<request, triageAgent, careAgent, node, inbox, received,
                   joinBuffer, outputs, deadlinePassed, adapterPc, updates>>
    /\ UNCHANGED <<unitVars, gateVars, apiVars, mainVars>>

\* Time passes: the deadline the caller allows a run elapses.
DeadlineElapses ==
    /\ runStatus = "running"
    /\ ~deadlinePassed
    /\ deadlinePassed' = TRUE
    /\ UNCHANGED <<request, triageAgent, careAgent, node, inbox, received,
                   joinBuffer, outputs, runStatus, adapterPc, updates>>
    /\ UNCHANGED <<unitVars, gateVars, apiVars, mainVars>>

\* workflow_agent_adapter.py 89-111 _build_updates, for the str outputs of this graph
BuildUpdates(output) == <<TextUpdate(output)>>

\* workflow_agent_adapter.py 62-70: the outputs of the finished run
MutRunStreamOutputsNoEmptyCase ==
    /\ adapterPc = "awaiting"
    /\ runStatus = "completed"
    /\ updates' = IF outputs = <<>>
                  THEN updates
                  ELSE updates \o BuildUpdates(get_outputs[Len(get_outputs)])
    /\ adapterPc' = IF outputs = <<>> THEN "raised" ELSE "done"
    /\ UNCHANGED <<request, triageAgent, careAgent, node, inbox, received,
                   joinBuffer, outputs, runStatus, deadlinePassed>>
    /\ UNCHANGED <<unitVars, gateVars, apiVars, mainVars>>

RunStreamOutputs ==
    /\ adapterPc = "awaiting"
    /\ runStatus = "completed"
    /\ updates' = IF outputs = <<>>
                  THEN Append(updates, TextUpdate(""))
                  ELSE updates \o BuildUpdates(get_outputs[Len(get_outputs)])
    /\ adapterPc' = "done"
    /\ UNCHANGED <<request, triageAgent, careAgent, node, inbox, received,
                   joinBuffer, outputs, runStatus, deadlinePassed>>
    /\ UNCHANGED <<unitVars, gateVars, apiVars, mainVars>>

\* workflow_agent_adapter.py 61: the exception of a failed run leaves run_stream
RunStreamRaises ==
    /\ adapterPc = "awaiting"
    /\ runStatus = "failed"
    /\ adapterPc' = "raised"
    /\ UNCHANGED <<request, triageAgent, careAgent, node, inbox, received,
                   joinBuffer, outputs, runStatus, deadlinePassed, updates>>
    /\ UNCHANGED <<unitVars, gateVars, apiVars, mainVars>>

-----------------------------------------------------------------------------
(***************************************************************************)
(* SpecApi: server/api.py, the conversation threads.                       *)
(***************************************************************************)
MaxRequests == 3
MaxClock == 2           \* the clock readings of SpecMemory are 0..MaxClock
MicrosPerSecond == 2    \* the clock's readings in one second
MemoryThreads == {"thread-1", "thread-2"}

NoThread == ""
Conversations == {"A", "B"}
NoAsk == [pc |-> "idle", thread_id |-> NoThread, messages |-> <<>>]

\* What the people of a conversation say and are told.
Question(c) == "question of " \o c
Answer(c) == "answer to " \o c
\* The thread id the client of a conversation may pass with a question.
ClientThread(c) == "thread-" \o c
ThreadArgs(c) == {NoThread, ClientThread(c)}
\* getUserAction's arguments, and str.replace(" ", "_") on them.
UserName(c) == IF c = "A" THEN "Ann Lee" ELSE "Bob"
Birthday(c) == IF c = "A" THEN "1990 01 02" ELSE "1985-03-04"
ReplaceSpaces(str) ==
    CASE str = "Ann Lee" -> "Ann_Lee"
      [] str = "1990 01 02" -> "1990_01_02"
      [] OTHER -> str

ApiMessage(role, text) == [role |-> role, text |-> text]

\* api.py 252-256 and 217-219: a message as stored, and read back
ToStored(m, now) ==
    [role |-> IF m.role = "user" THEN "user" ELSE "assistant", content |-> m.text,
     timestamp |-> now]
MutFromStoredRoleLost(d) == ApiMessage("assistant", d.content)

FromStored(d) ==
    ApiMessage(IF d.role = "user" THEN "user" ELSE "assistant", d.content)

\* datetime.isoformat() of a clock reading in microseconds: the seconds, then
\* the microseconds unless they are zero ("...T12:00:00" against
\* "...T12:00:00.000001")
isoformat(now) ==
    IF now % MicrosPerSecond = 0
    THEN <<now \div MicrosPerSecond>>
    ELSE <<now \div MicrosPerSecond, now % MicrosPerSecond>>

\* The order of two strings of fixed-width fields, as ORDER BY compares them:
\* field by field, a proper prefix first.
RECURSIVE StringLeq(_, _)
StringLeq(a, b) ==
    IF a = <<>> THEN TRUE
    ELSE IF b = <<>> THEN FALSE
    ELSE IF Head(a) # Head(b) THEN Head(a) < Head(b)
    ELSE StringLeq(Tail(a), Tail(b))

\* memory_helper.py 87-117 write_memory: upsert of a document whose id carries
\* the thread and the time
\* the time: the id is formatted from one reading of the clock (now_id) and
\* updated_at from a later one (now_updated)
write_memory(thread_id, memory_data, now_id, now_updated) ==
    LET id == <<"memory", thread_id, isoformat(now_id)>>
    IN  {d \in cosmos : d.id # id}
        \cup {[id |-> id, thread_id |-> thread_id, memory_data |-> memory_data,
               updated_at |-> isoformat(now_updated)]}

MutLatestItemsOldest(thread_id) ==
    LET items == {d \in cosmos : d.thread_id = thread_id}
    IN  {d \in items : \A e \in items : StringLeq(d.updated_at, e.updated_at)}

\* memory_helper.py 129-133: WHERE c.thread_id = @thread_id ORDER BY
\* c.updated_at DESC, the documents that can come first
LatestItems(thread_id) ==
    LET items == {d \in cosmos : d.thread_id = thread_id}
    IN  {d \in items : \A e \in items : StringLeq(e.updated_at, d.updated_at)}

\* memory_helper.py 119-155 read_memory: the latest document of the thread
read_memory(thread_id) ==
    IF LatestItems(thread_id) = {} THEN <<>>
    ELSE <<(CHOOSE d \in LatestItems(thread_id) : TRUE).memory_data>>

\* uuid.uuid4(): an id no thread has
Uuid(i) == "uuid-" \o ToString(i)
FreshUuid ==
    Uuid(CHOOSE i \in 1..(MaxRequests + 1) :
            /\ Uuid(i) \notin DOMAIN conversation_threads
            /\ \A j \in 1..(i - 1) : Uuid(j) \in DOMAIN conversation_threads)

ApiIdle ==
    /\ memory_helper = FALSE
    /\ current_thread_id = NoThread
    /\ conversation_threads = [t \in {} |-> <<>>]
    /\ cosmos = {}
    /\ clock = 0
    /\ asks = [c \in Conversations |-> NoAsk]
    /\ nRequests = 0

\* api.py 173-195 getUserAction
getUserAction(c) ==
    /\ nRequests < MaxRequests
    /\ nRequests' = nRequests + 1
    /\ current_thread_id' =
          "user_" \o ReplaceSpaces(UserName(c)) \o "_" \o ReplaceSpaces(Birthday(c))
    /\ UNCHANGED <<memory_helper, conversation_threads, cosmos, clock, asks>>
    /\ UNCHANGED <<unitVars, gateVars, runVars, mainVars>>

\* api.py 204-205: the thread a request is served on
ResolveThread(given) ==
    IF given = NoThread /\ current_thread_id # NoThread
    THEN current_thread_id
    ELSE given

\* api.py 211-224: the history read for the thread
StoredHistory(thread_id) ==
    IF thread_id # NoThread /\ memory_helper
    THEN LET memory_data == read_memory(thread_id)
         IN  IF memory_data # <<>>
             THEN [i \in 1..Len(memory_data[1].conversation_history) |->
                      FromStored(memory_data[1].conversation_history[i])]
             ELSE <<>>
    ELSE IF thread_id # NoThread /\ thread_id \in DOMAIN conversation_threads
         THEN conversation_threads[thread_id]
         ELSE <<>>

\* api.py 198-234 ask_medical_question_workflow_agent up to "await workflow.run"
AskBegin(c, given) ==
    /\ asks[c].pc = "idle"
    /\ nRequests < MaxRequests
    /\ nRequests' = nRequests + 1
    /\ LET thread_id == ResolveThread(given)
           messages == Append(StoredHistory(thread_id), ApiMessage("user", Question(c)))
       IN  asks' = [asks EXCEPT ![c] =
                       [pc |-> "running", thread_id |-> thread_id, messages |-> messages]]
    /\ UNCHANGED <<memory_helper, current_thread_id, conversation_threads, cosmos, clock>>
    /\ UNCHANGED <<unitVars, gateVars, runVars, mainVars>>

\* api.py 235-277: the rest of the call, once the workflow has run
AskEnd(c) ==
    /\ asks[c].pc = "running"
    /\ LET response == Answer(c)
           fresh == asks[c].thread_id = NoThread
           thread_id == IF fresh THEN FreshUuid ELSE asks[c].thread_id
           messages == Append(asks[c].messages, ApiMessage("assistant", response))
           memory_data ==
              [conversation_history |->
                  [i \in 1..Len(messages) |-> ToStored(messages[i], clock)],
               message_count |-> Len(messages)]
       IN  /\ current_thread_id' = IF fresh THEN thread_id ELSE current_thread_id
           /\ cosmos' = IF memory_helper
                        THEN write_memory(thread_id, memory_data, clock, clock)
                        ELSE cosmos
           /\ conversation_threads' = (thread_id :> messages) @@ conversation_threads
    /\ clock' = clock + 1
    /\ asks' = [asks EXCEPT ![c] = NoAsk]
    /\ UNCHANGED <<memory_helper, nRequests>>
    /\ UNCHANGED <<unitVars, gateVars, runVars, mainVars>>

\* api.py 234-236: workflow.run raises (an agent call failed, or the workflow
\* refused the run), and nothing after it in the call is executed.
AskRaises(c) ==
    /\ asks[c].pc = "running"
    /\ asks' = [asks EXCEPT ![c] = NoAsk]
    /\ UNCHANGED <<memory_helper, current_thread_id, conversation_threads, cosmos,
                   clock, nRequests>>
    /\ UNCHANGED <<unitVars, gateVars, runVars, mainVars>>

-----------------------------------------------------------------------------
(***************************************************************************)
(* SpecMain: server/main.py, the workflow of lines 151-170 run by main().  *)
(***************************************************************************)
AUTH_EXECUTOR_ID == "patient_authentication_agent_executor"
AUTH_STATE_ID == "handle_authentication_state"
REPLY_GUIDANCE_ID == "reply_medical_guidance"
JOINT_SURGERY_ID == "joint_surgery_info_agent_executor"
MainNodes ==
    {AUTH_EXECUTOR_ID, AUTH_STATE_ID, TRIAGE_EXECUTOR_ID, REPLY_EMERGENCY_ID,
     REPLY_GUIDANCE_ID, JOINT_SURGERY_ID}
MainAgentNodes == {AUTH_EXECUTOR_ID, TRIAGE_EXECUTOR_ID, JOINT_SURGERY_ID}

\* main.py 151-170: the start executor and the edges, each with its condition
MainStart == {AUTH_EXECUTOR_ID}
MainEdges ==
    { Edge(AUTH_EXECUTOR_ID, AUTH_STATE_ID, "always"),
      Edge(AUTH_STATE_ID, TRIAGE_EXECUTOR_ID, "always"),
      Edge(TRIAGE_EXECUTOR_ID, REPLY_EMERGENCY_ID, "emergency"),
      Edge(TRIAGE_EXECUTOR_ID, REPLY_GUIDANCE_ID, "guidance"),
      Edge(TRIAGE_EXECUTOR_ID, JOINT_SURGERY_ID, "joint_surgery") }

\* api.py 157-166: the workflow of the API, the three edges out of triage
ApiNodes == {TRIAGE_EXECUTOR_ID, REPLY_EMERGENCY_ID, REPLY_GUIDANCE_ID, JOINT_SURGERY_ID}
ApiStart == {TRIAGE_EXECUTOR_ID}
ApiEdges ==
    { Edge(TRIAGE_EXECUTOR_ID, REPLY_EMERGENCY_ID, "emergency"),
      Edge(TRIAGE_EXECUTOR_ID, REPLY_GUIDANCE_ID, "guidance"),
      Edge(TRIAGE_EXECUTOR_ID, JOINT_SURGERY_ID, "joint_surgery") }

\* The condition of an edge, evaluated on the message sent along it.
MainEdgePasses(edge, m) ==
    CASE edge.condition = "emergency" -> main_edge_emergency(m)
      [] edge.condition = "guidance" -> main_edge_guidance(m)
      [] edge.condition = "joint_surgery" -> main_edge_joint_surgery(m)
      [] OTHER -> TRUE

\* patient_authentication_agent.py 93-128: the fields of a
\* PatientAuthenticationResult the handler reads (ok = FALSE: None).
NoAuthResult == [ok |-> FALSE, message_to_patient |-> "", triage_ready |-> FALSE]
AuthResult(msg, ready) == [ok |-> TRUE, message_to_patient |-> msg, triage_ready |-> ready]
AuthPatientMessages == {"", "Please tell me your date of birth."}
AuthResults == {AuthResult(msg, ready) : msg \in AuthPatientMessages, ready \in BOOLEAN}

\* The authentication agent's response: its structured value (None, a
\* PatientAuthenticationResult, or a dict that validates or does not) and what
\* its text decodes to (nothing when the text is empty or does not validate).
AuthValues ==
    {[kind |-> "none", result |-> NoAuthResult]}
    \cup {[kind |-> "model", result |-> r] : r \in AuthResults}
    \cup {[kind |-> "dict", result |-> r] : r \in AuthResults \cup {NoAuthResult}}
AuthTextResults == AuthResults \cup {NoAuthResult}
AuthRunResponses == [value : AuthValues, text : AuthTextResults]
NoAuthResponse == [value |-> [kind |-> "none", result |-> NoAuthResult], text |-> NoAuthResult]

\* The triage texts of a main.py run, and the joint surgery executor.
MainTriageTexts == {t \in TriageTexts : t.reason \in {"str", "absent"}}
JointSurgeryExecutors == [output_response : BOOLEAN, text : {"joint surgery reply"}]

\* The messages of a main.py run.
MainRequest == [isResp |-> FALSE, executor_id |-> "", text |-> FreeText,
                auth |-> NoAuthResponse]
MainResponse(id, text, auth) ==
    [isResp |-> TRUE, executor_id |-> id, text |-> text, auth |-> auth]

\* main.py 85-102 extract_authentication_result
MutExtractAuthDictThenText(m) ==
    IF ~m.isResp THEN NoAuthResult
    ELSE IF m.auth.value.kind \in {"model", "dict"} /\ m.auth.value.result.ok
         THEN m.auth.value.result
    ELSE m.auth.text

extract_authentication_result(m) ==
    IF ~m.isResp THEN NoAuthResult
    ELSE IF m.auth.value.kind \in {"model", "dict"} THEN m.auth.value.result
    ELSE m.auth.text

AUTH_RETRY_MESSAGE ==
    "I'm sorry, I couldn't process your information. Could you please share your details again so I can verify your identity?"
GUIDANCE_MESSAGE ==
    "Sadly, I can't help with giving medical advice. Please consult a healthcare professional for guidance."
\* medical_triage_agent.py 94-96 output_response=True: the response as an output
TRIAGE_RESPONSE_OUTPUT == "AgentRunResponse of medical_triage_agent_executor"

\* main.py is not loaded in the process that serves the adapter or the API.
MainAbsent ==
    /\ authAgent = NoAuthResponse
    /\ mainTriage = FreeText
    /\ jointSurgery = [output_response |-> FALSE, text |-> "joint surgery reply"]
    /\ mainInbox = [n \in MainNodes |-> <<>>]
    /\ mainReceived = [n \in MainNodes |-> <<>>]
    /\ mainOutputs = <<>>
    /\ shared_state = [k \in {} |-> NoAuthResult]
    /\ mainStatus = "none"
    /\ mainPc = "none"
    /\ mainFinal = <<>>

\* The messages source sends with ctx.send_message(m) reach the targets of its
\* edges whose condition passes.
MainDeliver(box, source, m) ==
    [n \in MainNodes |->
        IF \E edge \in MainEdges :
              edge.source = source /\ edge.target = n /\ MainEdgePasses(edge, m)
        THEN Append(box[n], m)
        ELSE box[n]]

\* The handler of executor n takes the next message delivered to it.
MainTake(n) ==
    /\ mainStatus = "running"
    /\ mainInbox[n] # <<>>
    /\ mainReceived' = [mainReceived EXCEPT ![n] = Append(@, Head(mainInbox[n]))]

MainTaken(n) == [mainInbox EXCEPT ![n] = Tail(@)]

\* main.py 244-249 main(): events = await workflow.run(request)
MainRun ==
    /\ mainPc = "start"
    /\ mainPc' = "awaiting"
    /\ mainStatus' = "running"
    /\ mainInbox' = [mainInbox EXCEPT ![AUTH_EXECUTOR_ID] = <<MainRequest>>]
    /\ UNCHANGED <<authAgent, mainTriage, jointSurgery, mainReceived, mainOutputs,
                   shared_state, mainFinal>>
    /\ UNCHANGED <<unitVars, gateVars, runVars, apiVars>>

\* patient_authentication_agent.py 160-171: the AgentExecutor of the
\* authentication agent (output_response=False) and the edge of main.py 154
AuthExecutor ==
    /\ MainTake(AUTH_EXECUTOR_ID)
    /\ mainInbox' = MainDeliver(MainTaken(AUTH_EXECUTOR_ID), AUTH_EXECUTOR_ID,
                                MainResponse(AUTH_EXECUTOR_ID, FreeText, authAgent))
    /\ UNCHANGED <<authAgent, mainTriage, jointSurgery, mainOutputs, shared_state,
                   mainStatus, mainPc, mainFinal>>
    /\ UNCHANGED <<unitVars, gateVars, runVars, apiVars>>

\* main.py 105-124 handle_authentication_state
handle_authentication_state ==
    /\ MainTake(AUTH_STATE_ID)
    /\ LET response == Head(mainInbox[AUTH_STATE_ID])
           result == extract_authentication_result(response)
       IN  IF ~result.ok
           THEN /\ mainOutputs' = Append(mainOutputs, OutputEvent(AUTH_STATE_ID, AUTH_RETRY_MESSAGE))
                /\ mainInbox' = MainTaken(AUTH_STATE_ID)
                /\ UNCHANGED shared_state
           ELSE /\ shared_state' = ("patient_authentication" :> result) @@ shared_state
                /\ mainOutputs' =
                      IF result.message_to_patient # ""
                      THEN Append(mainOutputs, OutputEvent(AUTH_STATE_ID, result.message_to_patient))
                      ELSE mainOutputs
                /\ mainInbox' =
                      IF result.triage_ready
                      THEN MainDeliver(MainTaken(AUTH_STATE_ID), AUTH_STATE_ID, response)
                      ELSE MainTaken(AUTH_STATE_ID)
    /\ UNCHANGED <<authAgent, mainTriage, jointSurgery, mainStatus, mainPc, mainFinal>>
    /\ UNCHANGED <<unitVars, gateVars, runVars, apiVars>>

\* medical_triage_agent.py 88-99: the AgentExecutor of the triage agent
\* (output_response=True) and the three edges of main.py 156-168
MainTriageExecutor ==
    /\ MainTake(TRIAGE_EXECUTOR_ID)
    /\ mainOutputs' = Append(mainOutputs, OutputEvent(TRIAGE_EXECUTOR_ID, TRIAGE_RESPONSE_OUTPUT))
    /\ mainInbox' = MainDeliver(MainTaken(TRIAGE_EXECUTOR_ID), TRIAGE_EXECUTOR_ID,
                                MainResponse(TRIAGE_EXECUTOR_ID, mainTriage, NoAuthResponse))
    /\ UNCHANGED <<authAgent, mainTriage, jointSurgery, shared_state, mainStatus,
                   mainPc, mainFinal>>
    /\ UNCHANGED <<unitVars, gateVars, runVars, apiVars>>

\* main.py 128-131 handle_emergency
main_handle_emergency ==
    /\ MainTake(REPLY_EMERGENCY_ID)
    /\ mainInbox' = MainTaken(REPLY_EMERGENCY_ID)
    /\ mainOutputs' = Append(mainOutputs, OutputEvent(REPLY_EMERGENCY_ID, EMERGENCY_MESSAGE))
    /\ UNCHANGED <<authAgent, mainTriage, jointSurgery, shared_state, mainStatus,
                   mainPc, mainFinal>>
    /\ UNCHANGED <<unitVars, gateVars, runVars, apiVars>>

\* main.py 135-138 handle_medical_guidance
main_handle_medical_guidance ==
    /\ MainTake(REPLY_GUIDANCE_ID)
    /\ mainInbox' = MainTaken(REPLY_GUIDANCE_ID)
    /\ mainOutputs' = Append(mainOutputs, OutputEvent(REPLY_GUIDANCE_ID, GUIDANCE_MESSAGE))
    /\ UNCHANGED <<authAgent, mainTriage, jointSurgery, shared_state, mainStatus,
                   mainPc, mainFinal>>
    /\ UNCHANGED <<unitVars, gateVars, runVars, apiVars>>

\* The joint surgery AgentExecutor (main.py 12, 54): it has no outgoing edge,
\* and yields its response when built with output_response=True.
JointSurgeryExecutor ==
    /\ MainTake(JOINT_SURGERY_ID)
    /\ mainInbox' = MainTaken(JOINT_SURGERY_ID)
    /\ mainOutputs' = IF jointSurgery.output_response
                      THEN Append(mainOutputs, OutputEvent(JOINT_SURGERY_ID, jointSurgery.text))
                      ELSE mainOutputs
    /\ UNCHANGED <<authAgent, mainTriage, jointSurgery, shared_state, mainStatus,
                   mainPc, mainFinal>>
    /\ UNCHANGED <<unitVars, gateVars, runVars, apiVars>>

\* An agent call raises; nothing in main.py catches it, the run fails.
MainAgentRaises(n) ==
    /\ mainStatus = "running"
    /\ mainInbox[n] # <<>>
    /\ mainStatus' = "failed"
    /\ UNCHANGED <<authAgent, mainTriage, jointSurgery, mainInbox, mainReceived,
                   mainOutputs, shared_state, mainPc, mainFinal>>
    /\ UNCHANGED <<unitVars, gateVars, runVars, apiVars>>

\* No message is left: workflow.run returns.
MainRunCompletes ==
    /\ mainStatus = "running"
    /\ \A n \in MainNodes : mainInbox[n] = <<>>
    /\ mainStatus' = "completed"
    /\ UNCHANGED <<authAgent, mainTriage, jointSurgery, mainInbox, mainReceived,
                   mainOutputs, shared_state, mainPc, mainFinal>>
    /\ UNCHANGED <<unitVars, gateVars, runVars, apiVars>>

\* events.get_outputs() of the main.py run
MutMainGetOutputsReversed ==
    [i \in 1..Len(mainOutputs) |-> mainOutputs[Len(mainOutputs) + 1 - i].data]

main_get_outputs == [i \in 1..Len(mainOutputs) |-> mainOutputs[i].data]

\* main.py 258-263: print(f"Final output: {outputs[-1]}") when there are outputs
MainFinalOutput ==
    /\ mainPc = "awaiting"
    /\ mainStatus = "completed"
    /\ mainFinal' = IF main_get_outputs # <<>>
                    THEN <<main_get_outputs[Len(main_get_outputs)]>>
                    ELSE <<>>
    /\ mainPc' = "done"
    /\ UNCHANGED <<authAgent, mainTriage, jointSurgery, mainInbox, mainReceived,
                   mainOutputs, shared_state, mainStatus>>
    /\ UNCHANGED <<unitVars, gateVars, runVars, apiVars>>

\* main.py 249: the exception of a failed run leaves main()
MainRaises ==
    /\ mainPc = "awaiting"
    /\ mainStatus = "failed"
    /\ mainPc' = "raised"
    /\ UNCHANGED <<authAgent, mainTriage, jointSurgery, mainInbox, mainReceived,
                   mainOutputs, shared_state, mainStatus, mainFinal>>
    /\ UNCHANGED <<unitVars, gateVars, runVars, apiVars>>

-----------------------------------------------------------------------------
(***************************************************************************)
(* SpecRouter: _final_response_router (workflow.py 74-153) invoked with    *)
(* any list of responses, whatever the runner would deliver.               *)
(***************************************************************************)
MaxResponses == 2

\* The triage responses of the lists: a text that is not JSON, or an object
\* that states the emergency either way, with any structured value.
RouterTriageTexts ==
    {FreeText} \cup {t \in JsonTexts : t.em \in {"true", "false"} /\ t.adv = "true"
                                        /\ t.reason = "str"}
RouterTriageResponses ==
    {AgentExecutorResponse(TRIAGE_EXECUTOR_ID,
        [text |-> t, value |-> v, messages |-> <<>>, full_conversation |-> <<>>]) :
        t \in RouterTriageTexts, v \in TriageValues}
RouterCareResponses ==
    {AgentExecutorResponse(CARE_NAV_EXECUTOR_ID, r) : r \in CareRunResponses}
\* A response of an executor the handler does not look for.
RouterOtherResponses ==
    {AgentExecutorResponse(JOINT_SURGERY_ID,
        [text |-> "reply", value |-> NoResult, messages |-> <<>>,
         full_conversation |-> <<>>])}
RouterResponses == RouterTriageResponses \cup RouterCareResponses \cup RouterOtherResponses

NotRouted == [called |-> FALSE, yields |-> <<>>]

\* No handler call is in hand.
RouterIdle ==
    /\ routerInput = <<>>
    /\ routed = NotRouted

\* workflow.py 74-153: the handler runs on the list
RouterInvoke ==
    /\ ~routed.called
    /\ routed' = [called |-> TRUE, yields |-> final_response_router(routerInput)]
    /\ UNCHANGED <<routerInput, adapter, storeVars, memVars, gateVars, runVars, apiVars, mainVars>>

\* The handler is invoked again, with a list that holds one more response.
RouterNext ==
    /\ routed.called
    /\ Len(routerInput) < MaxResponses
    /\ \E r \in RouterResponses : routerInput' = Append(routerInput, r)
    /\ routed' = NotRouted
    /\ UNCHANGED <<adapter, storeVars, memVars, gateVars, runVars, apiVars, mainVars>>

-----------------------------------------------------------------------------
(***************************************************************************)
(* SpecAdapter: WorkflowAgentAdapter (workflow_agent_adapter.py) called    *)
(* with any messages argument, over a workflow that returns any outputs.   *)
(***************************************************************************)
MaxItems == 2
MaxOutputs == 2

\* An item of a list argument: a ChatMessage, a str, or something else.
NoChatMessage == ChatMessage("", <<>>)
ChatMessageItem == [type |-> "ChatMessage", text |-> "",
                    message |-> ChatMessage("assistant", <<TextContent("earlier reply")>>)]
StrItem(t) == [type |-> "str", text |-> t, message |-> NoChatMessage]
OtherItem == [type |-> "other", text |-> "", message |-> NoChatMessage]
ListItems == {ChatMessageItem, StrItem("hello"), OtherItem}

\* The messages argument: None, a ChatMessage, a list, a str, or another type.
MessagesArg(type, items) == [type |-> type, items |-> items]
MessagesArgs ==
    {MessagesArg("None", <<>>), MessagesArg("other", <<>>),
     MessagesArg("ChatMessage", <<ChatMessageItem>>),
     MessagesArg("str", <<StrItem("hello")>>), MessagesArg("str", <<StrItem("")>>)}
    \cup {MessagesArg("list", l) : l \in UNION {[1..k -> ListItems] : k \in 0..MaxItems}}

\* workflow_agent_adapter.py 77-84: the loop over a list argument
Mut_normalize_list_keep_all(items) ==
    [i \in 1..Len(items) |->
        IF items[i].type = "ChatMessage" THEN items[i].message
        ELSE ChatMessage("user", <<TextContent(items[i].text)>>)]

RECURSIVE _normalize_list(_)
_normalize_list(items) ==
    IF items = <<>> THEN <<>>
    ELSE LET item == Head(items)
         IN  (CASE item.type = "ChatMessage" -> <<item.message>>
                [] item.type = "str" ->
                       <<ChatMessage("user", <<TextContent(item.text)>>)>>
                [] OTHER -> <<>>)
             \o _normalize_list(Tail(items))

\* workflow_agent_adapter.py 72-87 _normalize_messages
_normalize_messages(messages) ==
    CASE messages.type = "None" -> <<>>
      [] messages.type = "ChatMessage" -> <<messages.items[1].message>>
      [] messages.type = "list" -> _normalize_list(messages.items)
      [] messages.type = "str" ->
             <<ChatMessage("user", <<TextContent(messages.items[1].text)>>)>>
      [] OTHER -> <<>>

\* An output of the workflow: a str, or an AgentExecutorResponse with the
\* messages and the text of its agent_run_response; str is str(output).
StrOutput(t) == [isResp |-> FALSE, messages |-> <<>>, text |-> "", str |-> t]
ResponseOutput(messages, text) ==
    [isResp |-> TRUE, messages |-> messages, text |-> text,
     str |-> "AgentExecutorResponse(...)"]
AdapterOutputs ==
    {StrOutput(EMERGENCY_MESSAGE), StrOutput("reply"),
     ResponseOutput(<<ChatMessage("assistant", <<TextContent("part one")>>),
                      ChatMessage("assistant", <<TextContent("part two")>>)>>, "part one part two"),
     ResponseOutput(<<>>, "text only"),
     ResponseOutput(<<>>, "")}
AdapterOutputLists == UNION {[1..k -> AdapterOutputs] : k \in 0..MaxOutputs}

\* AgentRunResponseUpdate(response_id=..., role=..., contents=..., text=...)
TextReasoningContent(t) == [isText |-> FALSE, text |-> t]
AgentRunResponseUpdate(response_id, role, contents, text) ==
    [response_id |-> response_id, role |-> role, contents |-> contents, text |-> text]

\* workflow_agent_adapter.py 89-111 _build_updates
_build_updates(response_id, output) ==
    IF output.isResp /\ output.messages # <<>>
    THEN [i \in 1..Len(output.messages) |->
             AgentRunResponseUpdate(response_id, output.messages[i].role,
                                    output.messages[i].contents, "")]
    ELSE IF output.isResp /\ output.text # ""
    THEN <<AgentRunResponseUpdate(response_id, "assistant",
                                  <<TextContent(output.text)>>, output.text)>>
    ELSE <<AgentRunResponseUpdate(response_id, "assistant", <<>>, output.str)>>

\* workflow_agent_adapter.py 68: final_output = outputs[-1]
Mut_final_output_first(outs) == outs[1]

final_output(outs) == outs[Len(outs)]

\* workflow_agent_adapter.py 40: AgentRunResponse.from_agent_run_response_updates
\* (the response holds what the updates carried)
AgentRunResponse(messages, response_id) ==
    [messages |-> messages, response_id |-> response_id]
from_agent_run_response_updates(ups) ==
    AgentRunResponse([i \in 1..Len(ups) |-> ChatMessage(ups[i].role, ups[i].contents)],
                     ups[1].response_id)

NoAdapterCall ==
    [pc |-> "idle", method |-> "", messages |-> MessagesArg("None", <<>>),
     chat_messages |-> <<>>, uuids |-> 0, response_id |-> "",
     workflow |-> "idle", request |-> <<>>, outputs |-> <<>>, updates |-> <<>>,
     returned |-> <<>>]

AdapterIdle == adapter = NoAdapterCall

AdapterUnchanged ==
    UNCHANGED <<routerVars, storeVars, memVars, gateVars, runVars, apiVars, mainVars>>

\* run(messages) or run_stream(messages) is called.
AdapterCalled(method, messages) ==
    /\ adapter.pc = "idle"
    /\ adapter' = [NoAdapterCall EXCEPT !.pc = "called", !.method = method,
                                        !.messages = messages]
    /\ AdapterUnchanged

\* workflow_agent_adapter.py 49-60: run_stream up to its first yield, or its
\* return when there is no message
AdapterStreamBegin ==
    /\ adapter.pc = "called"
    /\ LET chat_messages == _normalize_messages(adapter.messages)
           response_id == Uuid(adapter.uuids + 1)
       IN  IF chat_messages = <<>>
           THEN adapter' = [adapter EXCEPT !.pc = "ended"]
           ELSE adapter' =
                   [adapter EXCEPT
                       !.pc = "reasoned",
                       !.chat_messages = chat_messages,
                       !.uuids = @ + 1,
                       !.response_id = response_id,
                       !.request = <<[messages |-> chat_messages, should_respond |-> TRUE]>>,
                       !.updates = <<AgentRunResponseUpdate(response_id, "assistant",
                                        <<TextReasoningContent("Analyzing input...")>>, "")>>]
    /\ AdapterUnchanged

\* workflow_agent_adapter.py 61: await self._workflow.run(request)
AdapterRunsWorkflow ==
    /\ adapter.pc = "reasoned"
    /\ adapter' = [adapter EXCEPT !.pc = "awaiting", !.workflow = "running"]
    /\ AdapterUnchanged

\* workflow_agent_adapter.py 62-70: the run returned; the updates for its outputs
AdapterStreamOutputs(outs) ==
    /\ adapter.pc = "awaiting"
    /\ adapter' =
          [adapter EXCEPT
              !.pc = "ended",
              !.workflow = "returned",
              !.outputs = outs,
              !.updates =
                  IF outs = <<>>
                  THEN Append(@, AgentRunResponseUpdate(adapter.response_id, "assistant", <<>>, ""))
                  ELSE @ \o _build_updates(adapter.response_id, final_output(outs))]
    /\ AdapterUnchanged

\* workflow_agent_adapter.py 61: the run raised, and so does the call
AdapterStreamRaises ==
    /\ adapter.pc = "awaiting"
    /\ adapter' = [adapter EXCEPT !.pc = "raised", !.workflow = "failed"]
    /\ AdapterUnchanged

\* workflow_agent_adapter.py 37-40: run() has drained run_stream
AdapterRunReturns ==
    /\ adapter.pc = "ended"
    /\ adapter.method = "run"
    /\ adapter' =
          [adapter EXCEPT
              !.pc = "returned",
              !.uuids = IF adapter.updates = <<>> THEN @ + 1 ELSE @,
              !.returned =
                  IF adapter.updates = <<>>
                  THEN <<AgentRunResponse(<<>>, Uuid(adapter.uuids + 1))>>
                  ELSE <<from_agent_run_response_updates(adapter.updates)>>]
    /\ AdapterUnchanged

-----------------------------------------------------------------------------
(***************************************************************************)
(* SpecStore: CosmosDBChatMessageStore (tools/cosmos_message_store.py),    *)
(* one store per thread over one container.  A document carries _ts, the   *)
(* service's time of its last write in whole seconds; a query ordered by   *)
(* c._ts alone may return documents of equal _ts in any order.             *)
(***************************************************************************)
MaxAdded == 3
MaxBatch == 2
MaxMaxMessages == 2
MaxSeconds == 3

StoreThreads == {"thread-1", "thread-2"}
NoLimit == <<>>
MaxMessagesOptions == {NoLimit} \cup {<<n>> : n \in 1..MaxMaxMessages}

\* The messages added to a thread are numbered in the order they are added.
TotalAdded == added["thread-1"] + added["thread-2"]

\* cosmos_message_store.py 112-117: the document of a message
Document(id, thread, m, ts) ==
    [id |-> id, thread_id |-> thread, message |-> m, _ts |-> ts]

\* WHERE c.thread_id = @thread_id
ThreadDocuments(docs, thread) == {d \in docs : d.thread_id = thread}

\* ORDER BY c._ts ASC: the sequences a query may return for a set of documents
OrderByTs(docs) ==
    {order \in [1..Cardinality(docs) -> docs] :
        /\ \A i, j \in 1..Cardinality(docs) : i # j => order[i] # order[j]
        /\ \A i, j \in 1..Cardinality(docs) : i < j => order[i]._ts <= order[j]._ts}

\* cosmos_message_store.py 176-212 _trim_messages, on the items its query gave
_trim_messages(docs, items, limit) ==
    IF Len(items) > limit
    THEN docs \ {items[i] : i \in 1..(Len(items) - limit)}
    ELSE docs

NotListed == [called |-> FALSE, thread_id |-> "", messages |-> <<>>, stored |-> {}]

StoreIdle ==
    /\ max_messages = [t \in StoreThreads |-> NoLimit]
    /\ container = {}
    /\ storeClock = 0
    /\ added = [t \in StoreThreads |-> 0]
    /\ listed = NotListed

NotRead == [called |-> FALSE, thread_id |-> "", memory_data |-> <<>>]

MemIdle ==
    /\ lastWritten = [t \in MemoryThreads |-> <<>>]
    /\ memoryRead = NotRead

UnitIdle == RouterIdle /\ AdapterIdle /\ StoreIdle /\ MemIdle

StoreUnchanged ==
    UNCHANGED <<routerVars, adapter, memVars, gateVars, runVars, apiVars, mainVars>>

\* cosmos_message_store.py 97-129 add_messages, of the store of a thread, with
\* count messages, elapsed seconds after the service's last write
add_messages(thread, count, elapsed) ==
    /\ TotalAdded + count <= MaxAdded
    /\ storeClock + elapsed <= MaxSeconds
    /\ IF count = 0
       THEN UNCHANGED <<container, storeClock, added>>
       ELSE LET created ==
                   container \cup
                   {Document(Uuid(TotalAdded + i), thread, added[thread] + i,
                             storeClock + elapsed) : i \in 1..count}
            IN  /\ \E items \in OrderByTs(ThreadDocuments(created, thread)) :
                      container' =
                          IF max_messages[thread] # NoLimit
                          THEN _trim_messages(created, items, max_messages[thread][1])
                          ELSE created
                /\ storeClock' = storeClock + elapsed
                /\ added' = [added EXCEPT ![thread] = @ + count]
    /\ UNCHANGED <<max_messages, listed>>
    /\ StoreUnchanged

\* cosmos_message_store.py 131-174 list_messages, of the store of a thread
list_messages(thread) ==
    /\ \E items \in OrderByTs(ThreadDocuments(container, thread)) :
          listed' = [called |-> TRUE, thread_id |-> thread,
                     messages |-> [i \in 1..Len(items) |-> items[i].message],
                     stored |-> {d.message : d \in ThreadDocuments(container, thread)}]
    /\ UNCHANGED <<max_messages, container, storeClock, added>>
    /\ StoreUnchanged

-----------------------------------------------------------------------------
InitGate ==
    /\ UnitIdle
    /\ message \in GateMessages
    /\ verdict = NoVerdict
    /\ request = "q1"
    /\ triageAgent = [text |-> FreeText, value |-> NoResult, messages |-> <<>>,
                      full_conversation |-> <<>>]
    /\ careAgent = [text |-> "", value |-> NoResult, messages |-> <<>>,
                    full_conversation |-> <<>>]
    /\ RunIdle
    /\ ApiIdle
    /\ MainAbsent

NextGate == Evaluate \/ Probe

SpecGate == InitGate /\ [][NextGate]_vars

Init ==
    /\ UnitIdle
    /\ GateIdle
    /\ request \in Requests
    /\ triageAgent \in TriageRunResponses
    /\ careAgent \in CareRunResponses
    /\ RunIdle
    /\ ApiIdle
    /\ MainAbsent

Next ==
    \/ RunStreamBegin
    \/ RunWorkflow
    \/ entry_dispatcher
    \/ \E n \in AgentNodes : InvokeAgent(n)
    \/ \E n \in AgentNodes : AgentReturns(n)
    \/ \E n \in AgentNodes : AgentRaises(n)
    \/ reply_emergency
    \/ FinalResponseRouter
    \/ RunCompletes
    \/ DeadlineElapses
    \/ RunStreamOutputs
    \/ RunStreamRaises

Spec == Init /\ [][Next]_vars

\* The runner goes on handling what is deliverable, and an agent that has
\* been called returns (unless its call raises).
Fairness ==
    /\ WF_vars(entry_dispatcher)
    /\ \A n \in AgentNodes : WF_vars(InvokeAgent(n)) /\ WF_vars(AgentReturns(n))
    /\ WF_vars(reply_emergency)
    /\ WF_vars(FinalResponseRouter)
    /\ WF_vars(RunCompletes)

\* Whether a run ends does not depend on the care navigator's message lists:
\* the liveness specification draws one request and the care navigator
\* responses that carry their reply, or none, in the text alone.
LiveCareRunResponses ==
    {c \in CareRunResponses :
        c.text \in {"", "reply"} /\ c.messages = <<>> /\ c.full_conversation = <<>>}

InitLive ==
    /\ Init
    /\ request = "q1"
    /\ careAgent \in LiveCareRunResponses

SpecLive == InitLive /\ [][Next]_vars /\ Fairness

InitApi ==
    /\ UnitIdle
    /\ GateIdle
    /\ request = "q1"
    /\ triageAgent = [text |-> FreeText, value |-> NoResult, messages |-> <<>>,
                      full_conversation |-> <<>>]
    /\ careAgent = [text |-> "", value |-> NoResult, messages |-> <<>>,
                    full_conversation |-> <<>>]
    /\ RunIdle
    /\ memory_helper \in BOOLEAN
    /\ current_thread_id = NoThread
    /\ conversation_threads = [t \in {} |-> <<>>]
    /\ cosmos = {}
    /\ clock = 0
    /\ asks = [c \in Conversations |-> NoAsk]
    /\ nRequests = 0
    /\ MainAbsent

NextApi ==
    \/ \E c \in Conversations : getUserAction(c)
    \/ \E c \in Conversations : \E given \in ThreadArgs(c) : AskBegin(c, given)
    \/ \E c \in Conversations : AskEnd(c)
    \/ \E c \in Conversations : AskRaises(c)

SpecApi == InitApi /\ [][NextApi]_vars

\* The process that runs main.py has no WorkflowAgentAdapter.
AdapterAbsent ==
    /\ request = "q1"
    /\ triageAgent = [text |-> FreeText, value |-> NoResult, messages |-> <<>>,
                      full_conversation |-> <<>>]
    /\ careAgent = [text |-> "", value |-> NoResult, messages |-> <<>>,
                    full_conversation |-> <<>>]
    /\ node = [n \in Nodes |-> "idle"]
    /\ inbox = [n \in Nodes |-> <<>>]
    /\ received = [n \in Nodes |-> <<>>]
    /\ joinBuffer = <<>>
    /\ outputs = <<>>
    /\ runStatus = "idle"
    /\ deadlinePassed = FALSE
    /\ adapterPc = "none"
    /\ updates = <<>>

InitMain ==
    /\ UnitIdle
    /\ GateIdle
    /\ AdapterAbsent
    /\ ApiIdle
    /\ authAgent \in AuthRunResponses
    /\ mainTriage \in MainTriageTexts
    /\ jointSurgery \in JointSurgeryExecutors
    /\ mainInbox = [n \in MainNodes |-> <<>>]
    /\ mainReceived = [n \in MainNodes |-> <<>>]
    /\ mainOutputs = <<>>
    /\ shared_state = [k \in {} |-> NoAuthResult]
    /\ mainStatus = "idle"
    /\ mainPc = "start"
    /\ mainFinal = <<>>

NextMain ==
    \/ MainRun
    \/ AuthExecutor
    \/ handle_authentication_state
    \/ MainTriageExecutor
    \/ main_handle_emergency
    \/ main_handle_medical_guidance
    \/ JointSurgeryExecutor
    \/ \E n \in MainAgentNodes : MainAgentRaises(n)
    \/ MainRunCompletes
    \/ MainFinalOutput
    \/ MainRaises

SpecMain == InitMain /\ [][NextMain]_vars

InitRouter ==
    /\ GateIdle
    /\ AdapterAbsent
    /\ ApiIdle
    /\ MainAbsent
    /\ UnitIdle

NextRouter == RouterInvoke \/ RouterNext

SpecRouter == InitRouter /\ [][NextRouter]_vars

InitAdapter ==
    /\ GateIdle
    /\ AdapterAbsent
    /\ ApiIdle
    /\ MainAbsent
    /\ UnitIdle

NextAdapter ==
    \/ \E method \in {"run", "run_stream"} : \E messages \in MessagesArgs :
          AdapterCalled(method, messages)
    \/ AdapterStreamBegin
    \/ AdapterRunsWorkflow
    \/ \E outs \in AdapterOutputLists : AdapterStreamOutputs(outs)
    \/ AdapterStreamRaises
    \/ AdapterRunReturns

SpecAdapter == InitAdapter /\ [][NextAdapter]_vars

InitStore ==
    /\ GateIdle
    /\ AdapterAbsent
    /\ ApiIdle
    /\ MainAbsent
    /\ RouterIdle
    /\ AdapterIdle
    /\ max_messages \in [StoreThreads -> MaxMessagesOptions]
    /\ container = {}
    /\ storeClock = 0
    /\ added = [t \in StoreThreads |-> 0]
    /\ listed = NotListed
    /\ MemIdle

NextStore ==
    \/ \E thread \in StoreThreads : \E count \in 0..MaxBatch : \E elapsed \in 0..1 :
          add_messages(thread, count, elapsed)
    \/ \E thread \in StoreThreads : list_messages(thread)

SpecStore == InitStore /\ [][NextStore]_vars

-----------------------------------------------------------------------------
(***************************************************************************)
(* SpecMemory: MemoryHelper (server/memory_helper.py) under any sequence   *)
(* of write_memory, update_memory and read_memory calls on two threads.    *)
(* A dict is the set of its items; the calls of one MemoryHelper are made  *)
(* one after the other (the methods are synchronous).                     *)
(***************************************************************************)
\* memory_helper.py 87: memory_data: Dict[str, Any], here of at most one key
MemoryDatas == {{}, {<<"a", 1>>}, {<<"a", 2>>}, {<<"b", 1>>}}

\* memory_helper.py 208: {**existing_memory, **memory_data}
MergeDicts(existing_memory, memory_data) ==
    memory_data
        \cup {p \in existing_memory : \A q \in memory_data : q[1] # p[1]}

\* memory_helper.py 129-146: what SELECT TOP 1 ... ORDER BY c.updated_at DESC
\* can give read_memory to return: None (<<>>) or the memory_data of a
\* document that no other of the thread comes before
ReadResults(thread_id) ==
    IF LatestItems(thread_id) = {} THEN {<<>>}
    ELSE {<<d.memory_data>> : d \in LatestItems(thread_id)}

MemoryUnchanged ==
    /\ UNCHANGED <<memory_helper, current_thread_id, conversation_threads, asks, nRequests>>
    /\ UNCHANGED <<routerVars, adapter, storeVars, gateVars, runVars, mainVars>>

\* memory_helper.py 87-112 write_memory returning True: datetime.utcnow() is
\* read for the id (102), then for updated_at (106); the clock does not run
\* backwards, and it has advanced when upsert_item (110) has come back from
\* the service.
MemoryWrites(thread_id, memory_data, now_id, now_updated) ==
    /\ clock <= now_id
    /\ now_id <= now_updated
    /\ now_updated <= MaxClock
    /\ cosmos' = write_memory(thread_id, memory_data, now_id, now_updated)
    /\ clock' = now_updated + 1
    /\ lastWritten' = [lastWritten EXCEPT ![thread_id] = <<memory_data>>]
    /\ memoryRead' = NotRead
    /\ MemoryUnchanged

\* memory_helper.py 112-117 write_memory returning False: upsert_item raised
\* and nothing was written; time has passed
MemoryWriteFails(thread_id) ==
    /\ clock <= MaxClock
    /\ clock' = clock + 1
    /\ UNCHANGED <<cosmos, lastWritten, memoryRead>>
    /\ MemoryUnchanged

\* memory_helper.py 119-155 read_memory
MemoryReads(thread_id) ==
    /\ \E memory_data \in ReadResults(thread_id) :
          memoryRead' = [called |-> TRUE, thread_id |-> thread_id,
                         memory_data |-> memory_data]
    /\ UNCHANGED <<cosmos, clock, lastWritten>>
    /\ MemoryUnchanged

\* memory_helper.py 189-212 update_memory: read_memory, merge, write_memory
MemoryUpdates(thread_id, memory_data, now_id, now_updated) ==
    \E existing_memory \in ReadResults(thread_id) :
        MemoryWrites(thread_id,
                     IF existing_memory # <<>> /\ existing_memory[1] # {}
                     THEN MergeDicts(existing_memory[1], memory_data)
                     ELSE memory_data,
                     now_id, now_updated)

\* memory_helper.py 25-51 MemoryHelper.__init__, on a container without
\* documents
InitMemory ==
    /\ GateIdle
    /\ AdapterAbsent
    /\ MainAbsent
    /\ UnitIdle
    /\ memory_helper = TRUE
    /\ current_thread_id = NoThread
    /\ conversation_threads = [t \in {} |-> <<>>]
    /\ cosmos = {}
    /\ clock = 0
    /\ asks = [c \in Conversations |-> NoAsk]
    /\ nRequests = 0

NextMemory ==
    \/ \E thread_id \in MemoryThreads : \E memory_data \in MemoryDatas :
       \E now_updated \in clock..(clock + 1) :
          MemoryWrites(thread_id, memory_data, clock, now_updated)
    \/ \E thread_id \in MemoryThreads : \E memory_data \in MemoryDatas :
       \E now_updated \in clock..(clock + 1) :
          MemoryUpdates(thread_id, memory_data, clock, now_updated)
    \/ \E thread_id \in MemoryThreads : MemoryWriteFails(thread_id)
    \/ \E thread_id \in MemoryThreads : MemoryReads(thread_id)

SpecMemory == InitMemory /\ [][NextMemory]_vars

\* Either program: the adapter over the build_workflow graph, or main.py.
InitCallers == Init \/ InitMain
NextCallers == Next \/ NextMain
SpecCallers == InitCallers /\ [][NextCallers]_vars

-----------------------------------------------------------------------------
(***************************************************************************)
(* Properties of the edge predicates (SpecGate).                           *)
(***************************************************************************)
\* What makes a text undecodable, said of the text itself: it is not a JSON
\* object, or a field of the schema is missing or of the wrong type.
UndecodableAsTriage(text) ==
    \/ ~text.obj
    \/ text.em \in {"absent", "badtype"}
    \/ text.reason \in {"absent", "badtype"}

UndecodableAsAdvice(text) ==
    \/ UndecodableAsTriage(text)
    \/ text.adv \in {"absent", "badtype"}

\* C1: fail closed.  For an AgentExecutorResponse whose text does not decode
\* as the helper's MedicalTriageResult, every condition helper returns false:
\* _condition_medical_emergency of workflow.py, and condition_medical_emergency
\* and condition_medical_guidance of main.py and of api.py.
C1_FailClosed ==
    (verdict.evaluated /\ message.isResp) =>
        /\ UndecodableAsTriage(message.text) => ~verdict.wf_emergency
        /\ UndecodableAsAdvice(message.text) =>
              /\ ~verdict.main_emergency
              /\ ~verdict.main_guidance
              /\ ~verdict.api_emergency
              /\ ~verdict.api_guidance

\* A response that says "emergency: true" but lacks the reason has been
\* evaluated, and so has one that lacks only is_medical_advice.
C1_Witness ==
    /\ verdict.evaluated
    /\ message.isResp
    /\ message.text.obj
    /\ message.text.em = "true"
    /\ message.text.adv = "absent"
    /\ message.text.reason = "str"
    /\ ~verdict.main_emergency

\* C2: pass through.  A message that is not an AgentExecutorResponse makes
\* every edge condition out of triage true: the emergency edge of
\* build_workflow and the three edges of main.py and of api.py.
C2_PassThroughEveryEdge ==
    (verdict.evaluated /\ ~message.isResp) =>
        /\ verdict.wf_emergency
        /\ \A i \in 1..3 : verdict.main_edges[i]
        /\ \A i \in 1..3 : verdict.api_edges[i]

\* C3: _condition_medical_emergency checks the type first.  A message that is
\* not an AgentExecutorResponse gives true with no decode attempted, whatever
\* its content; false is given only for an AgentExecutorResponse whose text is
\* undecodable or says is_medical_emergency = false.
C3_TypeCheckFirst ==
    verdict.evaluated =>
        /\ ~message.isResp => (verdict.wf_emergency /\ ~verdict.wf_decoded)
        /\ ~verdict.wf_emergency =>
              /\ message.isResp
              /\ UndecodableAsTriage(message.text) \/ message.text.em = "false"

\* A non-response whose content would not decode was let through.
C3_Witness ==
    /\ verdict.evaluated
    /\ ~message.isResp
    /\ UndecodableAsTriage(message.text)
    /\ verdict.wf_emergency
    /\ ~verdict.wf_decoded

\* How many of the conditions of a list of edges passed.
RECURSIVE CountPassed(_)
CountPassed(passed) ==
    IF passed = <<>> THEN 0
    ELSE (IF Head(passed) THEN 1 ELSE 0) + CountPassed(Tail(passed))

\* C24: in the main.py and api.py workflows every AgentExecutorResponse of
\* triage, decodable or not, satisfies exactly one of the three conditional
\* edges out of triage (reply_emergency, reply_medical_guidance, joint
\* surgery), and a response that fails to decode satisfies only the
\* joint-surgery edge.
C24_ExactlyOneTriageEdge ==
    (verdict.evaluated /\ message.isResp) =>
        /\ CountPassed(verdict.main_edges) = 1
        /\ CountPassed(verdict.api_edges) = 1
        /\ UndecodableAsAdvice(message.text) =>
              /\ verdict.main_edges = <<FALSE, FALSE, TRUE>>
              /\ verdict.api_edges = <<FALSE, FALSE, TRUE>>

\* The edges were evaluated on a response that states an emergency and
\* medical advice at once: only the emergency edge passed.
C24_Witness ==
    /\ verdict.evaluated
    /\ message.isResp
    /\ message.text.obj /\ message.text.em = "true" /\ message.text.adv = "true"
    /\ ~UndecodableAsAdvice(message.text)
    /\ verdict.main_edges = <<TRUE, FALSE, FALSE>>
    /\ verdict.api_edges = <<TRUE, FALSE, FALSE>>

-----------------------------------------------------------------------------
(***************************************************************************)
(* Properties of a run of the build_workflow graph (Spec).                 *)
(***************************************************************************)
ExecutorIds(responses) == {responses[i].executor_id : i \in 1..Len(responses)}

\* C4: the fan-in join final_response_router is invoked at most once in a
\* run, only after triage and the care navigator have both produced their
\* response, and with exactly those two responses.
C4_JoinFiresOnceWithBoth ==
    /\ Len(inbox[ROUTER_ID]) + Len(received[ROUTER_ID]) <= 1
    /\ \A responses \in
           {inbox[ROUTER_ID][i] : i \in 1..Len(inbox[ROUTER_ID])}
           \cup {received[ROUTER_ID][i] : i \in 1..Len(received[ROUTER_ID])} :
           /\ Len(responses) = 2
           /\ ExecutorIds(responses) = FanInSources
           /\ \A n \in FanInSources : node[n] = "settled"

\* The router has run in a completed run.
C4_Witness ==
    /\ runStatus = "completed"
    /\ Len(received[ROUTER_ID]) = 1

\* The triage response decodes to is_medical_emergency = b: its text does,
\* and its structured value is absent or says the same.
TriageDecodesTo(b) ==
    /\ ~UndecodableAsTriage(triageAgent.text)
    /\ triageAgent.text.em = (IF b THEN "true" ELSE "false")
    /\ triageAgent.value.ok => triageAgent.value.is_medical_emergency = b

\* C5: in a run whose triage response decodes to is_medical_emergency = true
\* the outputs are exactly one yield, the emergency message of
\* reply_emergency; final_response_router yields nothing.
C5_EmergencyRunOutputs ==
    (runStatus = "completed" /\ TriageDecodesTo(TRUE)) =>
        outputs = <<OutputEvent(REPLY_EMERGENCY_ID, EMERGENCY_MESSAGE)>>

\* An emergency run has completed in which the router ran and the care
\* navigator had a reply.
C5_Witness ==
    /\ runStatus = "completed"
    /\ TriageDecodesTo(TRUE)
    /\ Len(received[ROUTER_ID]) = 1
    /\ careAgent.text = "reply"
    /\ Len(outputs) = 1

\* C6 as stated: when triage decodes to is_medical_emergency = false and the
\* care navigator returns non-empty text, the outputs are exactly one yield,
\* the care navigator's response text, from final_response_router.
C6_AsStated ==
    (runStatus = "completed" /\ TriageDecodesTo(FALSE) /\ careAgent.text # "") =>
        outputs = <<OutputEvent(ROUTER_ID, careAgent.text)>>

\* C6 amended: when the care navigator's text is non-empty after stripping
\* white space, the one yield is that stripped text.
C6_NonEmergencyRunOutputs ==
    (runStatus = "completed" /\ TriageDecodesTo(FALSE)
        /\ Strip(careAgent.text) # "") =>
        /\ outputs = <<OutputEvent(ROUTER_ID, Strip(careAgent.text))>>
        /\ careAgent.text = " reply " => get_outputs = <<"reply">>

C6_Witness ==
    /\ runStatus = "completed"
    /\ TriageDecodesTo(FALSE)
    /\ careAgent.text = " reply "
    /\ outputs = <<OutputEvent(ROUTER_ID, "reply")>>

\* C7: when the triage agent returns text that is not JSON and no structured
\* value, reply_emergency is never invoked and never yields, and
\* final_response_router is invoked and yields the care navigator's reply:
\* the run's outputs are those of a run that triage cleared.
C7_MalformedTriage ==
    (runStatus = "completed" /\ ~triageAgent.text.obj /\ ~triageAgent.value.ok) =>
        /\ received[REPLY_EMERGENCY_ID] = <<>>
        /\ Len(received[ROUTER_ID]) = 1
        /\ \A i \in 1..Len(outputs) : outputs[i].source_executor_id = ROUTER_ID
        /\ careAgent.text \in {"reply", " reply "} => get_outputs = <<"reply">>
        /\ get_outputs = (IF CareNavigatorText(careAgent) # ""
                          THEN <<CareNavigatorText(careAgent)>> ELSE <<>>)

C7_Witness ==
    /\ runStatus = "completed"
    /\ ~triageAgent.text.obj
    /\ ~triageAgent.value.ok
    /\ get_outputs = <<"reply">>

\* C10: if only one of triage and the care navigator ever settles, the
\* router does not fire and the caller is told that the run is incomplete:
\* once the deadline has passed and the run can take no step of its own, the
\* run is no longer reported as running and run_stream is no longer awaiting.
OnlyOneSettled ==
    \E n \in FanInSources :
        node[n] = "settled" /\ \A o \in FanInSources \ {n} : node[o] = "running"

C10_RunIncompleteReported ==
    (deadlinePassed /\ OnlyOneSettled /\ \A n \in Nodes : inbox[n] = <<>>) =>
        /\ received[ROUTER_ID] = <<>>
        /\ runStatus # "running"
        /\ adapterPc # "awaiting"

\* C11: an agent invocation that raises inside a run is never surfaced as an
\* exception to the caller of run_stream: the node that raised is treated as
\* having produced an empty result, the run goes on (it is not failed), and
\* the caller observes only the run's outputs.
C11_FailuresNotSurfaced ==
    /\ adapterPc # "raised"
    /\ (\E n \in AgentNodes : node[n] = "raised") => runStatus # "failed"

\* The output events of one executor, in order.
OutputsOf(id) == SelectSeq(outputs, LAMBDA e : e.source_executor_id = id)

\* C14: a yield does not end the run.  After reply_emergency has yielded the
\* run goes on until the care navigator and final_response_router have
\* settled; it ends only when no node is pending; and run_stream emits the
\* output update only after the whole run has completed.
C14_YieldDoesNotEndRun ==
    /\ runStatus = "completed" =>
          /\ \A n \in Nodes : inbox[n] = <<>> /\ node[n] # "running"
          /\ node[CARE_NAV_EXECUTOR_ID] = "settled"
          /\ node[ROUTER_ID] = "settled"
          /\ Len(received[ROUTER_ID]) = 1
    /\ (\E i \in 1..Len(updates) : updates[i].kind = "text") =>
          /\ runStatus = "completed"
          /\ adapterPc = "done"
    /\ adapterPc = "done" => runStatus = "completed"

\* reply_emergency has yielded while the care navigator is still running:
\* the run is still running and run_stream has emitted no output update.
C14_Witness ==
    /\ OutputsOf(REPLY_EMERGENCY_ID) # <<>>
    /\ node[CARE_NAV_EXECUTOR_ID] = "running"
    /\ runStatus = "running"
    /\ adapterPc = "awaiting"
    /\ updates = <<ReasoningUpdate>>

\* The messages an executor has been handed or is about to be handed.
Delivered(n) == received[n] \o inbox[n]

\* C16: fan-out.  entry_dispatcher forwards the inbound request unchanged;
\* medical_triage_agent_executor and care_navigator_agent_executor each get
\* that same request once, whatever the other does, and in a run that
\* completes each has been invoked exactly once with it.
C16_FanOut ==
    /\ \A n \in AgentNodes \cup {ENTRY_ID} :
          /\ Len(Delivered(n)) <= 1
          /\ \A i \in 1..Len(Delivered(n)) : Delivered(n)[i] = RequestMessage(request)
    /\ node[ENTRY_ID] = "settled" =>
          \A n \in AgentNodes : Delivered(n) = <<RequestMessage(request)>>
    /\ \A n \in AgentNodes : node[n] # "idle" => received[n] = <<RequestMessage(request)>>
    /\ runStatus = "completed" =>
          \A n \in AgentNodes : received[n] = <<RequestMessage(request)>>

\* The care navigator has run to its end on the request before the triage
\* agent was even invoked.
C16_Witness ==
    /\ node[CARE_NAV_EXECUTOR_ID] = "settled"
    /\ received[CARE_NAV_EXECUTOR_ID] = <<RequestMessage(request)>>
    /\ node[TRIAGE_EXECUTOR_ID] = "idle"
    /\ inbox[TRIAGE_EXECUTOR_ID] = <<RequestMessage(request)>>

\* C17: every run of the build_workflow graph is a single acyclic traversal
\* that terminates: no node is invoked more than once, and provided both
\* agent invocations return (neither raises) a started run completes, with
\* zero, one or two outputs.
C17_RunTerminates ==
    /\ [](\A n \in Nodes : Len(received[n]) <= 1)
    /\ [](Len(outputs) <= 2)
    /\ (runStatus = "running") ~>
          (runStatus = "completed" \/ \E n \in AgentNodes : node[n] = "raised")

\* A run has completed in which every node of the graph ran once.
C17_Witness ==
    /\ runStatus = "completed"
    /\ \A n \in Nodes : Len(received[n]) = 1 /\ node[n] = "settled"

\* final_response_router has run and skipped the care navigator's output
\* because the triage result it read flags an emergency.
RouterSkippedForEmergency ==
    /\ Len(received[ROUTER_ID]) = 1
    /\ LET triage_result ==
              RouterTriageResult(AgentExecutorResponse(TRIAGE_EXECUTOR_ID, triageAgent))
       IN  triage_result.ok /\ triage_result.is_medical_emergency

\* C19: whenever final_response_router skips the care navigator output
\* because the triage result flags an emergency, the emergency message has
\* been yielded by reply_emergency in the same run (stated of the run once it
\* has completed), for every combination of the triage response's structured
\* value and text.
C19_SkipImpliesEmergencyYielded ==
    (runStatus = "completed" /\ RouterSkippedForEmergency) =>
        OutputsOf(REPLY_EMERGENCY_ID) = <<OutputEvent(REPLY_EMERGENCY_ID, EMERGENCY_MESSAGE)>>

\* C20: no run yields both the emergency message and the care navigator
\* text: reply_emergency and final_response_router do not both yield, so a run
\* has at most one output, for every combination of the triage response's
\* structured value and text.
C20_NotBothYield ==
    /\ ~(OutputsOf(REPLY_EMERGENCY_ID) # <<>> /\ OutputsOf(ROUTER_ID) # <<>>)
    /\ Len(outputs) <= 1
    /\ adapterPc = "done" =>
          ~(/\ OutputsOf(REPLY_EMERGENCY_ID) # <<>>
            /\ updates[Len(updates)].text # EMERGENCY_MESSAGE)

\* No node of the run can yield: the emergency edge's condition is false on
\* the triage response and final_response_router yields nothing for the two
\* responses.
NoNodeYields ==
    LET t == AgentExecutorResponse(TRIAGE_EXECUTOR_ID, triageAgent)
        c == AgentExecutorResponse(CARE_NAV_EXECUTOR_ID, careAgent)
    IN  /\ ~_condition_medical_emergency(t)
        /\ final_response_router(<<t, c>>) = <<>>

\* C15: a run in which no node yields ends as a normal terminal state with
\* an empty output list, not as an error: run_stream then emits, after the
\* reasoning chunk, exactly one assistant update with empty text, and stops.
C15_SilentTermination ==
    /\ (NoNodeYields /\ runStatus \in {"running", "completed"}) =>
          /\ outputs = <<>>
          /\ adapterPc \in {"awaiting", "done"}
          /\ adapterPc = "awaiting" => updates = <<ReasoningUpdate>>
    /\ (runStatus = "completed" /\ outputs = <<>> /\ adapterPc # "awaiting") =>
          /\ adapterPc = "done"
          /\ updates = <<ReasoningUpdate, TextUpdate("")>>

\* Such a run has ended: the router ran and yielded nothing, and run_stream
\* has emitted the empty update.
C15_Witness ==
    /\ NoNodeYields
    /\ runStatus = "completed"
    /\ Len(received[ROUTER_ID]) = 1
    /\ outputs = <<>>
    /\ adapterPc = "done"
    /\ updates = <<ReasoningUpdate, TextUpdate("")>>

\* What each node yields is a function of the two agent responses: it does
\* not depend on which branch settled first, nor on the order of the two
\* responses in the list final_response_router is given.  (The order of the
\* yields of two different nodes relative to each other is not stated here.)
YieldsPerNodeDetermined ==
    LET t == AgentExecutorResponse(TRIAGE_EXECUTOR_ID, triageAgent)
        c == AgentExecutorResponse(CARE_NAV_EXECUTOR_ID, careAgent)
    IN  /\ final_response_router(<<t, c>>) = final_response_router(<<c, t>>)
        /\ runStatus = "completed" =>
              /\ OutputsOf(REPLY_EMERGENCY_ID) =
                    (IF _condition_medical_emergency(t)
                     THEN <<OutputEvent(REPLY_EMERGENCY_ID, EMERGENCY_MESSAGE)>>
                     ELSE <<>>)
              /\ OutputsOf(ROUTER_ID) = YieldsOf(ROUTER_ID, final_response_router(<<t, c>>))
              /\ Len(outputs) = Len(OutputsOf(REPLY_EMERGENCY_ID)) + Len(OutputsOf(ROUTER_ID))

-----------------------------------------------------------------------------
(***************************************************************************)
(* Properties of the callers and of the main.py run (SpecCallers).         *)
(***************************************************************************)
\* The nodes an edge leads to from a node of S, and the nodes reachable from S.
Successors(edges, S) == {edge.target : edge \in {x \in edges : x.source \in S}}

RECURSIVE ReachableFrom(_, _)
ReachableFrom(edges, S) ==
    LET T == S \cup Successors(edges, S)
    IN  IF T = S THEN S ELSE ReachableFrom(edges, T)

Downstream(edges, n) == ReachableFrom(edges, Successors(edges, {n}))

\* A workflow graph as its builder was told it.
Graph(nodes, start, edges, fanins) ==
    [nodes |-> nodes, start |-> start, edges |-> edges, fanins |-> fanins]

WorkflowGraph == Graph(Nodes, WorkflowStart, WorkflowEdges, WorkflowFanIns)
MainGraph == Graph(MainNodes, MainStart, MainEdges, {})
ApiGraph == Graph(ApiNodes, ApiStart, ApiEdges, {})

\* The edges a fan-in group stands for, one from each declared source.
JoinEdges(fanins) ==
    UNION {{Edge(src, f.target, "join") : src \in f.sources} : f \in fanins}

\* The build-time invariants of a graph.
BuildInvariants(g) ==
    LET all == g.edges \cup JoinEdges(g.fanins)
    IN  /\ \A edge \in all : edge.source \in g.nodes /\ edge.target \in g.nodes
        /\ Cardinality(g.start) = 1
        /\ g.start \subseteq g.nodes
        /\ \A n \in g.nodes : n \notin Downstream(all, n)
        /\ g.nodes = ReachableFrom(all, g.start)
        /\ \A f \in g.fanins :
              /\ \A edge \in g.edges : edge.target # f.target
              /\ \A h \in g.fanins : h.target = f.target => h = f

\* A run follows the graph: an executor was handed a message only if it is the
\* start executor, or the target of an edge whose source has run, or the
\* target of a fan-in group all of whose sources have run; and what
\* final_response_router is handed is the list of its group's responses.
RunFollowsGraph(g, got) ==
    \A n \in g.nodes :
        got[n] # <<>> =>
            \/ n \in g.start
            \/ \E edge \in g.edges : edge.target = n /\ got[edge.source] # <<>>
            \/ \E f \in g.fanins :
                  f.target = n /\ \A src \in f.sources : got[src] # <<>>

\* C18: the graphs built by build_workflow, main.py and api.py satisfy the
\* build-time invariants: every edge references a node of the graph, exactly
\* one start node is declared, there is no cycle, and final_response_router
\* is reached only as the join target of its group {triage, care navigator},
\* never also through an ordinary edge.
C18_BuildInvariants ==
    /\ BuildInvariants(WorkflowGraph)
    /\ BuildInvariants(MainGraph)
    /\ BuildInvariants(ApiGraph)
    /\ WorkflowFanIns = {[sources |-> {TRIAGE_EXECUTOR_ID, CARE_NAV_EXECUTOR_ID},
                          target |-> ROUTER_ID]}
    /\ RunFollowsGraph(WorkflowGraph, [n \in Nodes |-> received[n] \o inbox[n]])
    /\ RunFollowsGraph(MainGraph, [n \in MainNodes |-> mainReceived[n] \o mainInbox[n]])
    /\ \A i \in 1..Len(Delivered(ROUTER_ID)) :
          ExecutorIds(Delivered(ROUTER_ID)[i]) = FanInSources

\* A run of the build_workflow graph has ended in which the router was
\* reached through its join and reply_emergency was not reached at all.
C18_Witness ==
    /\ runStatus = "completed"
    /\ Len(received[ROUTER_ID]) = 1
    /\ received[REPLY_EMERGENCY_ID] = <<>>
    /\ \A n \in AgentNodes \cup {ENTRY_ID} : Len(received[n]) = 1

\* A yield is appended after the yields that occurred before it, which keep
\* their place; a finished run yields nothing more.
YieldAppends(before, after, finished) ==
    /\ Len(after) >= Len(before)
    /\ \A i \in 1..Len(before) : after[i] = before[i]
    /\ finished => after = before

\* The caller has taken outputs[-1]: it is the data of the last yield.
CallerTookLastYield ==
    /\ (adapterPc = "done" /\ outputs # <<>>) =>
          updates[Len(updates)] = TextUpdate(outputs[Len(outputs)].data)
    /\ (mainPc = "done" /\ mainOutputs # <<>>) =>
          mainFinal = <<mainOutputs[Len(mainOutputs)].data>>

\* main.py: what handle_authentication_state yielded comes before every yield
\* of a node downstream of it.
AuthYieldPrecedesDownstream ==
    \A i, j \in 1..Len(mainOutputs) :
        (/\ mainOutputs[i].source_executor_id = AUTH_STATE_ID
         /\ mainOutputs[j].source_executor_id \in Downstream(MainEdges, AUTH_STATE_ID))
        => i < j

-----------------------------------------------------------------------------
(***************************************************************************)
(* Properties of the router on any list (SpecRouter).                      *)
(***************************************************************************)
\* C21: final_response_router requires both responses.  Invoked with a
\* list that lacks a response of the triage executor or lacks one of the
\* care navigator executor, it yields nothing.
C21_RouterRequiresBoth ==
    (routed.called
     /\ (TRIAGE_EXECUTOR_ID \notin ExecutorIds(routerInput)
         \/ CARE_NAV_EXECUTOR_ID \notin ExecutorIds(routerInput)))
        => routed.yields = <<>>

\* A list with a care navigator reply and no triage response was handled.
C21_Witness ==
    /\ routed.called
    /\ routed.yields = <<>>
    /\ TRIAGE_EXECUTOR_ID \notin ExecutorIds(routerInput)
    /\ \E i \in 1..Len(routerInput) :
          /\ routerInput[i].executor_id = CARE_NAV_EXECUTOR_ID
          /\ routerInput[i].chars = "reply"

\* The first non-empty text of a list of candidates, "" when there is none.
RECURSIVE FirstNonEmpty(_)
FirstNonEmpty(candidates) ==
    IF candidates = <<>> THEN ""
    ELSE IF Head(candidates) # "" THEN Head(candidates)
         ELSE FirstNonEmpty(Tail(candidates))

\* The text of one message: its stripped text contents, joined.
MessageText(m) == Strip(JoinBlankLine(FilterNonEmpty(TextParts(m.contents))))

\* The most recent assistant message of a conversation that has text.
MostRecentAssistantText(conversation) ==
    LET withText == {i \in 1..Len(conversation) :
                        /\ conversation[i].role = "assistant"
                        /\ MessageText(conversation[i]) # ""}
    IN  IF withText = {} THEN ""
        ELSE MessageText(conversation[CHOOSE i \in withText : \A j \in withText : j <= i])

\* The three sources of the reply, in the order the claim names them.
CareCandidates(care) ==
    <<Strip(care.chars),
      Strip(JoinBlankLine(FilterNonEmpty(AssistantParts(care.messages)))),
      MostRecentAssistantText(care.full_conversation)>>

\* The handler found both responses and the triage one flags no emergency.
RoutedWithoutEmergency ==
    /\ routed.called
    /\ LastFrom(routerInput, TRIAGE_EXECUTOR_ID) # <<>>
    /\ LastFrom(routerInput, CARE_NAV_EXECUTOR_ID) # <<>>
    /\ LET triage_result == RouterTriageResult(LastFrom(routerInput, TRIAGE_EXECUTOR_ID)[1])
       IN  ~(triage_result.ok /\ triage_result.is_medical_emergency)

\* C22: when triage does not flag an emergency the router yields at most
\* once; what it yields is the first non-empty of the stripped response
\* text, the joined assistant texts of the messages, and the text of the
\* most recent assistant message of full_conversation that has text; with
\* all three empty it yields nothing, and a yielded text is never empty or
\* white space only.
C22_RouterReplyText ==
    /\ Len(routed.yields) <= 1
    /\ \A i \in 1..Len(routed.yields) :
          routed.yields[i] # "" /\ Strip(routed.yields[i]) = routed.yields[i]
    /\ RoutedWithoutEmergency =>
          LET care == LastFrom(routerInput, CARE_NAV_EXECUTOR_ID)[1]
              chosen == FirstNonEmpty(CareCandidates(care))
          IN  routed.yields = IF chosen = "" THEN <<>> ELSE <<chosen>>

\* The reply came from full_conversation: the response text and the
\* messages gave nothing, and the most recent assistant text was yielded.
C22_Witness ==
    /\ RoutedWithoutEmergency
    /\ LET care == LastFrom(routerInput, CARE_NAV_EXECUTOR_ID)[1]
       IN  /\ care.chars = "  "
           /\ care.messages # <<>>
           /\ MessagesFallback(care.messages) = ""
           /\ Len(care.full_conversation) > 1
    /\ routed.yields = <<"new">>

-----------------------------------------------------------------------------
(***************************************************************************)
(* Properties of the main.py run (SpecMain).                               *)
(***************************************************************************)
\* What the authentication agent's response decodes to: its structured
\* value when it has one, valid or not, and its text otherwise.
AuthDecoded ==
    IF authAgent.value.kind = "none" THEN authAgent.text ELSE authAgent.value.result

\* handle_authentication_state has handled the authentication response.
AuthStateHandled == mainReceived[AUTH_STATE_ID] # <<>>

\* No executor downstream of handle_authentication_state was sent a message.
NothingDownstreamOfAuthState ==
    \A n \in Downstream(MainEdges, AUTH_STATE_ID) :
        mainInbox[n] = <<>> /\ mainReceived[n] = <<>>

MainOutputsOf(id) == SelectSeq(mainOutputs, LAMBDA e : e.source_executor_id = id)

\* C23: in the main.py workflow the triage executor is invoked only if
\* handle_authentication_state decoded a result with triage_ready = true;
\* when the authentication response cannot be decoded the handler yields the
\* retry message, writes no shared state and forwards nothing; and when
\* triage_ready is false nothing downstream of the handler runs.
C23_TriageOnlyWhenReady ==
    /\ (mainInbox[TRIAGE_EXECUTOR_ID] # <<>> \/ mainReceived[TRIAGE_EXECUTOR_ID] # <<>>)
          => (AuthStateHandled /\ AuthDecoded.ok /\ AuthDecoded.triage_ready)
    /\ (AuthStateHandled /\ ~AuthDecoded.ok)
          => /\ MainOutputsOf(AUTH_STATE_ID) = <<OutputEvent(AUTH_STATE_ID, AUTH_RETRY_MESSAGE)>>
             /\ DOMAIN shared_state = {}
             /\ NothingDownstreamOfAuthState
    /\ (AuthDecoded.ok /\ ~AuthDecoded.triage_ready) => NothingDownstreamOfAuthState
    /\ (AuthStateHandled /\ AuthDecoded.ok)
          => "patient_authentication" \in DOMAIN shared_state

\* A run ended after the handler rejected a dict value that does not
\* validate, although the response's text decodes to a ready result.
C23_Witness ==
    /\ mainStatus = "completed"
    /\ AuthStateHandled
    /\ authAgent.value.kind = "dict"
    /\ ~authAgent.value.result.ok
    /\ authAgent.text.ok /\ authAgent.text.triage_ready
    /\ MainOutputsOf(AUTH_STATE_ID) = <<OutputEvent(AUTH_STATE_ID, AUTH_RETRY_MESSAGE)>>
    /\ mainReceived[TRIAGE_EXECUTOR_ID] = <<>>

-----------------------------------------------------------------------------
(***************************************************************************)
(* Properties of the conversation threads (SpecApi).                       *)
(***************************************************************************)
\* The conversation a message comes from.
OwnedBy(m, c) == m.text \in {Question(c), Answer(c)}
AllOwnedBy(messages, c) == \A i \in 1..Len(messages) : OwnedBy(messages[i], c)

\* C8: no leak between conversations.  The history handed to the workflow
\* for a request holds only messages of the request's own conversation, and
\* a thread never stores the turns of two conversations, also when requests
\* carry no thread_id.
C8_NoLeakBetweenConversations ==
    /\ \A c \in Conversations :
          asks[c].pc = "running" => AllOwnedBy(asks[c].messages, c)
    /\ \A t \in DOMAIN conversation_threads :
          \E c \in Conversations : AllOwnedBy(conversation_threads[t], c)
    /\ \A d \in cosmos :
          \E c \in Conversations :
              \A i \in 1..Len(d.memory_data.conversation_history) :
                  OwnedBy(FromStored(d.memory_data.conversation_history[i]), c)

\* The thread the call of conversation c stores under when its run completes.
ThreadOfAsk(c) ==
    IF asks[c].thread_id = NoThread THEN FreshUuid ELSE asks[c].thread_id

TurnsOf(history) == {history[i] : i \in 1..Len(history)}

\* C26: for any interleaving of two requests on the same thread_id, the
\* history finally stored for the thread holds the question and the response
\* of both requests.  Every record written for a thread holds the turn of the
\* request that wrote it, so each of its turns must still be in the history
\* the thread has once no request is in flight.
C26_NoTurnLost ==
    (memory_helper /\ \A c \in Conversations : asks[c].pc = "idle") =>
        \A d \in cosmos :
            \A i \in 1..Len(d.memory_data.conversation_history) :
                FromStored(d.memory_data.conversation_history[i])
                    \in TurnsOf(StoredHistory(d.thread_id))

-----------------------------------------------------------------------------
(***************************************************************************)
(* Properties of the adapter on any argument (SpecAdapter).                *)
(***************************************************************************)
\* The argument holds at least one message: it is a ChatMessage or a str,
\* or a list with an item that is one.
HasNormalizableMessage(messages) ==
    \/ messages.type \in {"ChatMessage", "str"}
    \/ /\ messages.type = "list"
       /\ \E i \in 1..Len(messages.items) : messages.items[i].type \in {"ChatMessage", "str"}

IsReasoningUpdate(u) ==
    u.contents = <<TextReasoningContent("Analyzing input...")>>

\* C27: in run_stream called with at least one normalizable message, the
\* "Analyzing input..." reasoning update is emitted before the workflow is
\* run and before any output update, only the last workflow output is turned
\* into updates, and every update of the stream carries the same response_id.
C27_StreamOrder ==
    /\ (HasNormalizableMessage(adapter.messages) /\ adapter.pc \notin {"idle", "called"}) =>
          /\ adapter.updates # <<>>
          /\ IsReasoningUpdate(adapter.updates[1])
    /\ adapter.workflow # "idle" =>
          (adapter.updates # <<>> /\ IsReasoningUpdate(adapter.updates[1]))
    /\ \A i \in 2..Len(adapter.updates) : ~IsReasoningUpdate(adapter.updates[i])
    /\ adapter.workflow \in {"idle", "running", "failed"} => Len(adapter.updates) <= 1
    /\ (adapter.workflow = "returned" /\ adapter.outputs # <<>>) =>
          Tail(adapter.updates)
              = _build_updates(adapter.response_id, adapter.outputs[Len(adapter.outputs)])
    /\ \A i, j \in 1..Len(adapter.updates) :
          adapter.updates[i].response_id = adapter.updates[j].response_id

\* A stream ended over two different outputs: after the reasoning update it
\* gave the two updates of the last output's messages and nothing of the first.
C27_Witness ==
    /\ adapter.method = "run_stream"
    /\ adapter.pc = "ended"
    /\ Len(adapter.outputs) = 2
    /\ adapter.outputs[1] = StrOutput("reply")
    /\ adapter.outputs[2].isResp /\ Len(adapter.outputs[2].messages) = 2
    /\ Len(adapter.updates) = 3
    /\ IsReasoningUpdate(adapter.updates[1])
    /\ adapter.updates[3].contents = <<TextContent("part two")>>

\* C28: when the messages argument normalizes to an empty list (None, an
\* empty list, a list with no ChatMessage or str item, an unsupported type),
\* run_stream emits no update and never runs the workflow, and run returns a
\* response with no messages.
C28_NothingToNormalize ==
    (~HasNormalizableMessage(adapter.messages) /\ adapter.pc # "idle") =>
        /\ adapter.updates = <<>>
        /\ adapter.workflow = "idle"
        /\ adapter.pc \in {"called", "ended", "returned"}
        /\ adapter.pc = "returned" =>
              (Len(adapter.returned) = 1 /\ adapter.returned[1].messages = <<>>)

\* run returned for a list of items that are neither ChatMessage nor str.
C28_Witness ==
    /\ adapter.method = "run"
    /\ adapter.messages = MessagesArg("list", <<OtherItem, OtherItem>>)
    /\ adapter.pc = "returned"
    /\ adapter.returned[1].messages = <<>>
    /\ adapter.updates = <<>>
    /\ adapter.workflow = "idle"

-----------------------------------------------------------------------------
(***************************************************************************)
(* Properties of the message store (SpecStore).                            *)
(***************************************************************************)
\* The messages a thread holds, by their number in the order of adding.
HeldBy(thread) == {d.message : d \in ThreadDocuments(container, thread)}

\* C29: with max_messages = N, after every completed add_messages call the
\* store's thread holds at most N messages, the ones retained are the N most
\* recently added, and trimming never deletes a message of another thread
\* (a thread without a limit keeps every message added to it).
C29_RetainsMostRecent ==
    \A thread \in StoreThreads :
        IF max_messages[thread] = NoLimit
        THEN HeldBy(thread) = 1..added[thread]
        ELSE /\ Cardinality(HeldBy(thread)) <= max_messages[thread][1]
             /\ HeldBy(thread)
                  = {k \in 1..added[thread] : k + max_messages[thread][1] > added[thread]}

\* C30: list_messages returns exactly the messages stored for the store's
\* thread, oldest first: in the order in which they were added, the messages
\* of one add_messages call included.
C30_ListedInAddedOrder ==
    listed.called =>
        /\ {listed.messages[i] : i \in 1..Len(listed.messages)} = listed.stored
        /\ Len(listed.messages) = Cardinality(listed.stored)
        /\ \A i, j \in 1..Len(listed.messages) :
              i < j => listed.messages[i] < listed.messages[j]

\* What does hold whatever the order of documents of equal _ts: a thread
\* with max_messages = N holds at most N messages, a thread without a limit
\* keeps all of its own, and a listing holds each stored message once.
StoreBoundAndIsolation ==
    /\ \A thread \in StoreThreads :
          /\ HeldBy(thread) \subseteq 1..added[thread]
          /\ max_messages[thread] = NoLimit => HeldBy(thread) = 1..added[thread]
          /\ max_messages[thread] # NoLimit =>
                Cardinality(ThreadDocuments(container, thread)) <= max_messages[thread][1]
    /\ listed.called =>
          /\ {listed.messages[i] : i \in 1..Len(listed.messages)} = listed.stored
          /\ Len(listed.messages) = Cardinality(listed.stored)

\* When no two documents were ever written in the same second (every call
\* added one message, a second after the one before) both C29 and C30 hold.
StoreRightWithoutTies ==
    (TotalAdded = storeClock) => (C29_RetainsMostRecent /\ C30_ListedInAddedOrder)

-----------------------------------------------------------------------------
=============================================================================
